---- MODULE Spec2Model ----
(***************************************************************************)
(* Verification model of the zrepl RPC core: the frame layer and its      *)
(* bridging reader / writer (rpc/frame_layer.go), the message layer and    *)
(* the reflective RPC server (Server.Serve / Server.ServeRequest).         *)
(*                                                                         *)
(* The byte channel (io.ReadWriteCloser) is a record                       *)
(*   [rd, wr, closed, eof]                                                 *)
(* rd: bytes that arrived from the peer and were not read yet, wr: bytes   *)
(* written to the peer, closed: Close() was called on this side, eof: the  *)
(* peer went away (a read at the end of rd returns io.EOF, a write fails). *)
(* Everything on the channel is a byte; frame headers are the six bytes    *)
(* binary.Write produces, JSON values are short byte strings.              *)
(***************************************************************************)
EXTENDS Integers, Sequences, FiniteSets, TLC

\* ------------------------------------------------------------------------
\* Bounds of the model
\* ------------------------------------------------------------------------
MaxLen == 4          \* longest byte sequence handed to WriteData
FrameCap == 2        \* payload capacity of the data writer in SpecStream
MaxBuf == 2          \* largest buffer a caller passes to Read in SpecStream
MaxFrames == 2       \* frames queued on the channel in SpecFrame
MaxOps == 3          \* message layer calls after HangUp in SpecFrame
MaxRequests == 2     \* requests a client sends on one connection in Spec

\* ------------------------------------------------------------------------
\* Constants of rpc/frame_layer.go
\* ------------------------------------------------------------------------
FrameTypeHeader == 1
FrameTypeData == 2
FrameTypeTrailer == 3
FrameTypeRST == 255

StatusOK == 1
StatusRequestError == 2
StatusServerError == 3
\* Used by ServeRequest for handler errors; an identifier of its own, not
\* one of the three above.
StatusError == 4

DataTypeMarshaledJSON == 1
DataTypeOctets == 2

MAX_PAYLOAD_LENGTH == 4 * 1024 * 1024
MAX_HEADER_LENGTH == 4 * 1024

NoLimit == 0 - 1     \* totalLimit < 0 means no limit

\* ------------------------------------------------------------------------
\* Helpers
\* ------------------------------------------------------------------------
Min(a, b) == IF a < b THEN a ELSE b

Drop(s, n) == SubSeq(s, n + 1, Len(s))

Take(s, n) == SubSeq(s, 1, n)

\* binary.LittleEndian encoding of a uint32
PutUint32(n) ==
    << n % 256, (n \div 256) % 256, (n \div 65536) % 256,
       (n \div 16777216) % 256 >>

\* TLC's integers are 32 bit wide: a length of 2^30 or more, which is far
\* above MAX_PAYLOAD_LENGTH, keeps its low 24 bits and bit 30.
Uint32(b) ==
    b[1] + 256 * b[2] + 65536 * b[3]
      + (IF b[4] >= 64 THEN 1073741824 ELSE 16777216 * b[4])

\* ------------------------------------------------------------------------
\* The byte channel
\* ------------------------------------------------------------------------
NewChannel == [rd |-> <<>>, wr |-> <<>>, closed |-> FALSE, eof |-> FALSE]

Writable(c) == ~c.closed /\ ~c.eof

\* rwc.Write(b): all of b or an error
rwcWrite(c, b) ==
    IF Writable(c)
    THEN [c |-> [c EXCEPT !.wr = @ \o b], err |-> FALSE]
    ELSE [c |-> c, err |-> TRUE]

\* rwc.Read(b[:n]) that hands over nb bytes (nb <= n, nb <= Len(c.rd)).
\* err: "nil", "EOF", "err" (closed channel) or "block" (nothing arrived yet)
rwcRead(c, n, nb) ==
    IF c.closed THEN [c |-> c, n |-> <<>>, err |-> "err"]
    ELSE IF n = 0 THEN [c |-> c, n |-> <<>>, err |-> "nil"]
    ELSE IF Len(c.rd) = 0
         THEN [c |-> c, n |-> <<>>, err |-> IF c.eof THEN "EOF" ELSE "block"]
    ELSE [c |-> [c EXCEPT !.rd = Drop(@, nb)], n |-> Take(c.rd, nb),
          err |-> "nil"]

\* rwc.Close()
rwcClose(c) == [c EXCEPT !.closed = TRUE]

\* ------------------------------------------------------------------------
\* Frames
\* ------------------------------------------------------------------------
Frame(t, nomore, len) ==
    [Type |-> t, NoMoreFrames |-> nomore, PayloadLength |-> len]

ZeroFrame == Frame(0, FALSE, 0)

\* The six bytes writeFrame puts on the channel
FrameBytes(f) ==
    << f.Type, IF f.NoMoreFrames THEN 1 ELSE 0 >> \o PutUint32(f.PayloadLength)

\* readFrame without the size guard
readFrameNoGuard(c) ==
    IF c.closed THEN [c |-> c, f |-> ZeroFrame, err |-> "err"]
    ELSE IF Len(c.rd) < 6
    THEN IF ~c.eof THEN [c |-> c, f |-> ZeroFrame, err |-> "block"]
         ELSE [c |-> [c EXCEPT !.rd = <<>>], f |-> ZeroFrame, err |-> "err"]
    ELSE [c |-> [c EXCEPT !.rd = Drop(@, 6)],
          f |-> Frame(c.rd[1], c.rd[2] # 0, Uint32(SubSeq(c.rd, 3, 6))),
          err |-> "nil"]

\* MessageLayer.readFrame: three binary.Read calls (io.ReadFull of 1, 1 and
\* 4 bytes), then the size guard.
readFrame(c) ==
    IF c.closed THEN [c |-> c, f |-> ZeroFrame, err |-> "err"]
    ELSE IF Len(c.rd) < 6
    THEN IF ~c.eof THEN [c |-> c, f |-> ZeroFrame, err |-> "block"]
         ELSE [c |-> [c EXCEPT !.rd = <<>>],
               f |-> Frame(IF Len(c.rd) >= 1 THEN c.rd[1] ELSE 0,
                           IF Len(c.rd) >= 2 THEN c.rd[2] # 0 ELSE FALSE, 0),
               err |-> "err"]
    ELSE LET f == Frame(c.rd[1], c.rd[2] # 0, Uint32(SubSeq(c.rd, 3, 6)))
         IN  [c |-> [c EXCEPT !.rd = Drop(@, 6)], f |-> f,
              err |-> IF f.PayloadLength > MAX_PAYLOAD_LENGTH
                      THEN "err" ELSE "nil"]

\* MessageLayer.writeFrame: three binary.Write calls, then the size guard.
writeFrame(c, f) ==
    LET w == rwcWrite(c, FrameBytes(f))
    IN  IF w.err THEN [c |-> c, err |-> TRUE]
        ELSE [c |-> w.c, err |-> f.PayloadLength > MAX_PAYLOAD_LENGTH]

\* ------------------------------------------------------------------------
\* frameBridgingWriter
\* ------------------------------------------------------------------------
\* NewFrameBridgingWriter sets payloadLength to MAX_PAYLOAD_LENGTH; the field
\* is a parameter here so that a small capacity can stand in for 4 MiB.
NewFrameBridgingWriter(frameType, totalLimit, payloadLength) ==
    [frameType |-> frameType, bytesLeftToLimit |-> totalLimit,
     payloadLength |-> payloadLength, buffer |-> <<>>]

\* frameBridgingWriter.flush: the error of writeFrame is dropped, the error
\* of buffer.WriteTo is returned. bytes.Buffer.WriteTo does not call Write
\* for an empty buffer and keeps the bytes when Write fails.
flush(w, c, nomore) ==
    LET Done(wt) == [w |-> IF wt.err THEN w ELSE [w EXCEPT !.buffer = <<>>],
                     c |-> wt.c, err |-> wt.err]
        WriteTo(wf) == Done(IF Len(w.buffer) > 0 THEN rwcWrite(wf.c, w.buffer)
                            ELSE [c |-> wf.c, err |-> FALSE])
    IN  WriteTo(writeFrame(c, Frame(w.frameType, nomore, Len(w.buffer))))

\* frameBridgingWriter.writeUntilFrameFull
writeUntilFrameFull(w, c, b) ==
    IF Len(b) <= 0 THEN [w |-> w, c |-> c, n |-> 0, err |-> FALSE]
    ELSE IF w.bytesLeftToLimit = 0 THEN [w |-> w, c |-> c, n |-> 0, err |-> TRUE]
    ELSE
      LET remainingInFrame == w.payloadLength - Len(w.buffer)
          Clamp(m1) == IF w.bytesLeftToLimit > 0 /\ m1 > w.bytesLeftToLimit
                       THEN w.bytesLeftToLimit ELSE m1
          Flushed(maxwrite, fl) ==
              [w |-> fl.w, c |-> fl.c, n |-> maxwrite, err |-> fl.err]
          Buffered(maxwrite, w1) ==
              Flushed(maxwrite,
                      IF w1.bytesLeftToLimit = 0 \/ Len(w1.buffer) = w1.payloadLength
                      THEN flush(w1, c, w1.bytesLeftToLimit = 0)
                      ELSE [w |-> w1, c |-> c, err |-> FALSE])
          Put(maxwrite) ==
              Buffered(maxwrite, [w EXCEPT !.buffer = @ \o Take(b, maxwrite),
                                           !.bytesLeftToLimit = @ - maxwrite])
      IN  Put(Clamp(Min(Len(b), remainingInFrame)))

\* frameBridgingWriter.Write: the loop over writeUntilFrameFull
RECURSIVE Write(_, _, _)
Write(w, c, b) ==
    IF Len(b) = 0 THEN [w |-> w, c |-> c, n |-> 0, err |-> FALSE]
    ELSE LET Sum(u, rest) == [w |-> rest.w, c |-> rest.c, n |-> u.n + rest.n,
                              err |-> rest.err]
             Step(u) == IF u.err
                        THEN [w |-> u.w, c |-> u.c, n |-> u.n, err |-> TRUE]
                        ELSE Sum(u, Write(u.w, u.c, Drop(b, u.n)))
         IN  Step(writeUntilFrameFull(w, c, b))

\* Close that forgets to mark the last frame
CloseNoMark(w, c) == flush(w, c, FALSE)

\* frameBridgingWriter.Close
Close(w, c) == flush(w, c, TRUE)

\* ------------------------------------------------------------------------
\* frameBridgingReader
\* ------------------------------------------------------------------------
NewFrameBridgingReader(frameType, totalLimit) ==
    [frameType |-> frameType, bytesLeftToLimit |-> totalLimit, f |-> ZeroFrame]

\* The payload part of frameBridgingReader.Read (from "maxread := len(b)"):
\* maxread is what Read asks the channel for.
maxreadOf(r, lenb) ==
    LET Clamp(m1) == IF r.bytesLeftToLimit > 0 /\ m1 > r.bytesLeftToLimit
                     THEN r.bytesLeftToLimit ELSE m1
    IN  Clamp(Min(lenb, r.f.PayloadLength))

\* The channel hands over nb of the maxread bytes asked for
readPayload(r, c, maxread, nb) ==
    LET Account(rd) == [r |-> [r EXCEPT !.f.PayloadLength = @ - Len(rd.n),
                                        !.bytesLeftToLimit = @ - Len(rd.n)],
                        c |-> rd.c, n |-> rd.n, err |-> rd.err]
    IN  Account(rwcRead(c, maxread, nb))

\* Of the m bytes asked for, those that have arrived
AllArrived(m, c) == Min(m, Len(c.rd))

\* frameBridgingReader.Read(b) with len(b) = lenb, where the channel hands
\* over at most nb of the bytes Read asks it for. On a frame of the wrong
\* type errors.Wrapf(nil, ...) is nil: Read returns (0, nil) and keeps the
\* frame.
ReadWith(r, c, lenb, nb) ==
    IF r.bytesLeftToLimit = 0 THEN [r |-> r, c |-> c, n |-> <<>>, err |-> "EOF"]
    ELSE IF r.f.PayloadLength = 0
    THEN IF r.f.NoMoreFrames THEN [r |-> r, c |-> c, n |-> <<>>, err |-> "EOF"]
         ELSE LET Whole(p) == IF p.err = "block"
                              THEN [r |-> r, c |-> c, n |-> <<>>, err |-> "block"]
                              ELSE p
                  Payload(r1, c1, maxread) ==
                      Whole(readPayload(r1, c1, maxread,
                                        Min(nb, AllArrived(maxread, c1))))
                  Got(rf, r1) ==
                      IF rf.err = "block"
                      THEN [r |-> r, c |-> c, n |-> <<>>, err |-> "block"]
                      ELSE IF rf.err # "nil"
                      THEN [r |-> r1, c |-> rf.c, n |-> <<>>, err |-> "err"]
                      ELSE IF rf.f.Type # r.frameType
                      THEN [r |-> r1, c |-> rf.c, n |-> <<>>, err |-> "nil"]
                      ELSE Payload(r1, rf.c, maxreadOf(r1, lenb))
                  Framed(rf) == Got(rf, [r EXCEPT !.f = rf.f])
              IN  Framed(readFrame(c))
    ELSE LET Payload(maxread) ==
                 readPayload(r, c, maxread, Min(nb, AllArrived(maxread, c)))
         IN  Payload(maxreadOf(r, lenb))

\* Read where the channel hands over everything that was asked for and has
\* arrived
Read(r, c, lenb) == ReadWith(r, c, lenb, lenb)

\* ------------------------------------------------------------------------
\* encoding/json, as far as the message layer uses it
\* ------------------------------------------------------------------------
\* A JSON object is the byte string  { k1 v1 k2 v2 ... }  of one byte per
\* key and per value; json.Encoder.Encode appends a newline. The decoder
\* skips leading white space, stops at the closing brace of the value, and
\* ignores keys the target type does not have.
LBRACE == 123
RBRACE == 125
NL == 10

\* minRead of encoding/json: the buffer json.Decoder passes to Read
DecoderBuf == 512

KeyEndpoint == 1
KeyDataType == 2
KeyAccept == 3
KeyError == 4
KeyErrorMessage == 5
KeyBody == 6

ZeroHeader ==
    [Endpoint |-> 0, DataType |-> 0, Accept |-> 0, Error |-> 0,
     ErrorMessage |-> 0]

\* json.NewEncoder(w).Encode(h) for a Header
EncodeHeader(h) ==
    << LBRACE, KeyEndpoint, h.Endpoint, KeyDataType, h.DataType,
       KeyAccept, h.Accept, KeyError, h.Error,
       KeyErrorMessage, h.ErrorMessage, RBRACE, NL >>

\* json.NewEncoder(w).Encode(v) for a request or response value
EncodeBody(v) == << LBRACE, KeyBody, v, RBRACE, NL >>

\* The scanner of the decoder on the bytes buffered so far:
\* "ok" (a complete value, obj its key/value pairs), "more" or "bad".
RECURSIVE ScanPairs(_, _, _)
ScanPairs(buf, i, obj) ==
    IF i > Len(buf) THEN [state |-> "more", obj |-> obj]
    ELSE IF buf[i] = RBRACE THEN [state |-> "ok", obj |-> obj]
    ELSE IF buf[i] \notin 1..9 THEN [state |-> "bad", obj |-> obj]
    ELSE IF i + 1 > Len(buf) THEN [state |-> "more", obj |-> obj]
    ELSE IF buf[i + 1] \notin 0..99 THEN [state |-> "bad", obj |-> obj]
    ELSE ScanPairs(buf, i + 2, Append(obj, << buf[i], buf[i + 1] >>))

RECURSIVE ScanValue(_, _)
ScanValue(buf, i) ==
    IF i > Len(buf) THEN [state |-> "more", obj |-> <<>>]
    ELSE IF buf[i] = NL THEN ScanValue(buf, i + 1)
    ELSE IF buf[i] = LBRACE THEN ScanPairs(buf, i + 1, <<>>)
    ELSE [state |-> "bad", obj |-> <<>>]

OnlySpace(buf) == \A i \in 1..Len(buf) : buf[i] = NL

\* The value of key k in a decoded object, the zero value when absent
RECURSIVE Field(_, _)
Field(obj, k) ==
    IF Len(obj) = 0 THEN 0
    ELSE IF obj[Len(obj)][1] = k THEN obj[Len(obj)][2]
    ELSE Field(Take(obj, Len(obj) - 1), k)

\* json.NewDecoder(r).Decode(&v): Read until the buffer holds a value.
\* err: "nil", "EOF" (io.EOF before any value), "syntax" (not a JSON value,
\* or the stream ended within it), "ioerr" (Read failed) or "block".
RECURSIVE Decode(_, _, _)
Decode(r, c, buf) ==
    LET Refill(rd) ==
            IF rd.err = "nil" THEN Decode(rd.r, rd.c, buf \o rd.n)
            ELSE IF rd.err = "block"
            THEN [r |-> r, c |-> c, obj |-> <<>>, err |-> "block"]
            ELSE [r |-> rd.r, c |-> rd.c, obj |-> <<>>,
                  err |-> IF rd.err # "EOF" THEN "ioerr"
                          ELSE IF OnlySpace(buf) THEN "EOF"
                          ELSE "syntax"]
        Scanned(s) ==
            IF s.state = "ok" THEN [r |-> r, c |-> c, obj |-> s.obj, err |-> "nil"]
            ELSE IF s.state = "bad"
            THEN [r |-> r, c |-> c, obj |-> <<>>, err |-> "syntax"]
            ELSE Refill(Read(r, c, DecoderBuf))
    IN  Scanned(ScanValue(buf, 1))

\* io.Copy / ioutil.ReadAll on a bridging reader: Read up to io.EOF
RECURSIVE ReadAll(_, _, _)
ReadAll(r, c, acc) ==
    LET Step(rd) ==
            IF rd.err = "nil" THEN ReadAll(rd.r, rd.c, acc \o rd.n)
            ELSE IF rd.err = "block"
            THEN [r |-> r, c |-> c, data |-> acc, err |-> "block"]
            ELSE [r |-> rd.r, c |-> rd.c, data |-> acc,
                  err |-> IF rd.err = "EOF" THEN "nil" ELSE "err"]
    IN  Step(Read(r, c, DecoderBuf))

\* ------------------------------------------------------------------------
\* MessageLayer
\* ------------------------------------------------------------------------
\* MessageLayer.HangUp: the RST frame, then Close whatever writeFrame said
HangUp(c) ==
    LET Closed(rst) == [c |-> rwcClose(rst.c), err |-> rst.err]
    IN  Closed(writeFrame(c, Frame(FrameTypeRST, FALSE, 0)))

\* MessageLayer.ReadHeader
ReadHeader(c) ==
    LET Decoded(d) ==
            [c |-> d.c,
             h |-> [Endpoint |-> Field(d.obj, KeyEndpoint),
                    DataType |-> Field(d.obj, KeyDataType),
                    Accept |-> Field(d.obj, KeyAccept),
                    Error |-> Field(d.obj, KeyError),
                    ErrorMessage |-> Field(d.obj, KeyErrorMessage)],
             err |-> d.err]
    IN  Decoded(Decode(NewFrameBridgingReader(FrameTypeHeader,
                                              MAX_HEADER_LENGTH), c, <<>>))

\* MessageLayer.WriteHeader: Encode is one Write; the result of w.Close()
\* is dropped.
WriteHeader(c, h) ==
    LET Encoded(e) == IF e.err THEN [c |-> e.c, err |-> TRUE]
                      ELSE [c |-> Close(e.w, e.c).c, err |-> FALSE]
    IN  Encoded(Write(NewFrameBridgingWriter(FrameTypeHeader, MAX_HEADER_LENGTH,
                                             MAX_PAYLOAD_LENGTH),
                      c, EncodeHeader(h)))

\* MessageLayer.ReadData
ReadData == NewFrameBridgingReader(FrameTypeData, NoLimit)

\* MessageLayer.WriteData with a writer of the given capacity: io.Copy
\* hands the source over in one Write, then Close.
WriteDataCap(c, source, payloadLength) ==
    LET Closed(cl) == [c |-> cl.c, err |-> cl.err]
        Copied(e) == IF e.err THEN [c |-> e.c, err |-> TRUE]
                     ELSE Closed(Close(e.w, e.c))
    IN  Copied(Write(NewFrameBridgingWriter(FrameTypeData, NoLimit, payloadLength),
                     c, source))

WriteData(c, source) == WriteDataCap(c, source, MAX_PAYLOAD_LENGTH)

\* ------------------------------------------------------------------------
\* State
\* ------------------------------------------------------------------------
VARIABLES
    ch,         \* the byte channel of the message layer under study
    \* WriteData / ReadData over one channel (SpecStream)
    src,        \* the byte sequence handed to WriteData
    wpos,       \* bytes of src that io.Copy has handed to Write so far
    w,          \* the frameBridgingWriter
    wstate,     \* "open" or "closed" (Close returned)
    r,          \* the frameBridgingReader
    got,        \* bytes the reader delivered so far
    rstate,     \* "reading", "eof" or "err"
    \* frame and message layer calls (SpecFrame, SpecHangUp)
    lastOp,     \* the last call: what it was given and what it returned
    nOps,       \* calls so far
    \* the RPC server (Spec)
    endpoints,  \* Server.endpoints: name -> endpointDescr
    firstReg,   \* name -> the handler of the first RegisterEndpoint for it,
                \* and whether a later RegisterEndpoint for it was refused
    lastReg,    \* the last RegisterEndpoint call and its result
    phase,      \* "setup", "serving", "returned" (Serve returned), "panic"
    reqSent,    \* requests the client has sent
    respHdrs,   \* response headers the server has written
    kinds,      \* the kinds of the requests the client has sent
    last,       \* the iteration of the loop of Serve since the last request
    \* the request handlers of the serving side (SpecHandler)
    dsf,        \* Handler.dsf: dataset path -> what Filter returns for it
    fsvf,       \* Handler.fsvf: version -> what Filter returns for it
    hlast,      \* the last handler call, what it did and the reply to it
    \* one doPull cycle (SpecPull)
    pull,              \* PullContext: Mapping and InitialReplPolicy
    remoteFilesystems, \* the reply to FilesystemRequest
    nextFs,            \* index of the mapping loop into remoteFilesystems
    replMapping,       \* local path -> remote path
    localTraversal,    \* the forest: its nodes as inserted, the explicit ones
    zfsState,          \* the local filesystems: path -> absent, placeholder, present
    localFilesystemState, \* the cache of zfsState that doPull builds
    todo,              \* the nodes WalkTopDown still has to visit, in order
    visited,           \* the nodes visited so far
    aborted,           \* the nodes whose visit returned false
    created,           \* the placeholder filesystems created in this cycle
    calls,             \* the remote calls issued in this cycle
    recvs,             \* the ZFSRecv invocations of this cycle
    pullLast,          \* the last visit
    pullPhase,         \* "start", "mapping", "walk", "visit", "done", "error", "panic"
    pullErr,           \* the error doPull has set or returned
    cancelled,         \* the context of the pull job was cancelled
    unread,            \* the stream of a transfer request was left unread
    \* closeRPCWithTimeout (SpecClose)
    closeTimeout,      \* the timeout argument
    closeEscalates,    \* the version of the function that calls ForceClose
    closeNow,          \* the time since the call
    closePc,           \* the caller: "select", "force", "returned"
    closerPc,          \* the goroutine: "closing", "sending", "done"
    closeErr,          \* err of closeRPCWithTimeout after the select
    closeSent,         \* what remote.Close returned to the goroutine
    forceClosed,       \* remote.ForceClose was called
    returnedAt,        \* closeNow when closeRPCWithTimeout returned
    \* Daemon.Loop (SpecDaemon)
    nJobs,             \* len(d.conf.Jobs)
    started,           \* jobs for which the start loop spawned the goroutine
    jobPc,             \* per job: "idle", "running", "returned", "reported"
    ctxDone,           \* cancel() of the context of Loop was called
    sigChan,           \* signals buffered in sigChan (capacity 1)
    nSignals,          \* signals delivered to the process so far
    finishCount,       \* finishCount of Loop
    loopPc,            \* Loop: "starting", "select", "exited"
    \* SourceJob.JobDo (SpecSource)
    srcPc,             \* JobDo: "spawn", "select", "serving", "ended", "returned"
    accs,              \* the accept goroutines started so far: pc and connection
    connState,         \* per accepted connection: "accepted", "serving", "closed"
    listenerOpen,      \* listener.Close() was not called yet
    rwcChanClosed,     \* close(rwcChan) was called
    srcSigChan,        \* signals buffered in sigChan of JobDo (capacity 1)
    srcSignals         \* signals delivered to the process so far

streamVars == << src, wpos, w, wstate, r, got, rstate >>
opVars == << lastOp, nOps >>
serverVars == << endpoints, firstReg, lastReg, phase, reqSent, respHdrs,
                 kinds, last >>
handlerVars == << dsf, fsvf, hlast >>
pullVars == << pull, remoteFilesystems, nextFs, replMapping,
               localTraversal, zfsState, localFilesystemState, todo, visited,
               aborted, created, calls, recvs, pullLast, pullPhase, pullErr,
               cancelled, unread >>
closeVars == << closeTimeout, closeEscalates, closeNow, closePc, closerPc,
                closeErr, closeSent, forceClosed, returnedAt >>
sourceVars == << srcPc, accs, connState, listenerOpen, rwcChanClosed,
                 srcSigChan, srcSignals >>
\* Daemon.Loop and the job it runs
daemonVars == << nJobs, started, jobPc, ctxDone, sigChan, nSignals,
                 finishCount, loopPc, sourceVars >>
vars == << ch, src, wpos, w, wstate, r, got, rstate, lastOp, nOps,
           endpoints, firstReg, lastReg, phase, reqSent, respHdrs, kinds,
           last, dsf, fsvf, hlast, pull, remoteFilesystems, nextFs,
           replMapping, localTraversal, zfsState, localFilesystemState, todo,
           visited, aborted, created, calls, recvs, pullLast, pullPhase,
           pullErr, cancelled, unread, closeVars, daemonVars >>

SeqsUpTo(S, n) == UNION { [1..k -> S] : k \in 0..n }

\* Octets that also occur in frame headers (a frame type, a set flag)
DataBytes == {1, 2}

NoOp == [op |-> "none", f |-> ZeroFrame, err |-> "nil",
         before |-> <<>>, after |-> <<>>]

NoReg == [name |-> 0, handler |-> 0, dup |-> FALSE, err |-> "none"]

\* No handler was called
NoOutcome == [err |-> 0, val |-> 0, bytes |-> << >>, marshalErr |-> FALSE]

NoServe ==
    [c |-> NewChannel, err |-> "none", hdr |-> FALSE, h |-> ZeroHeader,
     replied |-> FALSE, reply |-> ZeroHeader, handler |-> 0, herr |-> 0,
     dataWritten |-> FALSE, data |-> <<>>, ioerr |-> FALSE, hungup |-> FALSE,
     ho |-> NoOutcome]

StreamIdle ==
    /\ src = <<>> /\ wpos = 0 /\ wstate = "closed" /\ got = <<>>
    /\ rstate = "eof"
    /\ w = NewFrameBridgingWriter(FrameTypeData, NoLimit, FrameCap)
    /\ r = ReadData

OpIdle == lastOp = NoOp /\ nOps = 0

ServerIdle ==
    /\ endpoints = << >> /\ firstReg = << >> /\ lastReg = NoReg
    /\ phase = "off" /\ reqSent = 0 /\ respHdrs = 0 /\ kinds = {}
    /\ last = NoServe

\* No handler was called
NoHandlerCall ==
    [op |-> "none", path |-> 0, from |-> 0, to |-> 0, zfs |-> << >>,
     err |-> 0, reply |-> ZeroHeader, dataWritten |-> FALSE]

HandlerIdle == dsf = << >> /\ fsvf = << >> /\ hlast = NoHandlerCall

\* No node was visited
\* No diff was computed
NoDiff ==
    [Conflict |-> "none", MRCAPathLeft |-> << >>, MRCAPathRight |-> << >>,
     IncrementalPath |-> << >>]

NoVisit ==
    [Path |-> << >>, FilledIn |-> FALSE, ret |-> FALSE, ops |-> << >>,
     localState |-> "absent", left |-> << >>, right |-> << >>,
     Conflict |-> "none", diff |-> NoDiff]

PullIdle ==
    /\ pull = << >> /\ remoteFilesystems = << >> /\ nextFs = 0
    /\ replMapping = << >> /\ localTraversal = << >> /\ zfsState = << >>
    /\ localFilesystemState = << >> /\ todo = << >> /\ visited = {}
    /\ aborted = {} /\ created = {} /\ calls = {} /\ recvs = {}
    /\ pullLast = NoVisit /\ pullPhase = "off" /\ pullErr = "nil"
    /\ cancelled = FALSE /\ unread = FALSE

CloseIdle ==
    /\ closeTimeout = 0 /\ closeEscalates = FALSE /\ closeNow = 0
    /\ closePc = "off" /\ closerPc = "off" /\ closeErr = "nil"
    /\ closeSent = "nil" /\ forceClosed = FALSE /\ returnedAt = 0

SourceIdle ==
    /\ srcPc = "off" /\ accs = << >> /\ connState = << >>
    /\ listenerOpen = FALSE /\ rwcChanClosed = FALSE
    /\ srcSigChan = 0 /\ srcSignals = 0

LoopIdle ==
    /\ nJobs = 0 /\ started = 0 /\ jobPc = << >> /\ ctxDone = FALSE
    /\ sigChan = 0 /\ nSignals = 0 /\ finishCount = 0 /\ loopPc = "off"

DaemonIdle == LoopIdle /\ SourceIdle

\* ------------------------------------------------------------------------
\* SpecStream: WriteData on one end of a channel, a ReadData reader on the
\* other end, Write by Write and Read by Read
\* ------------------------------------------------------------------------
\* What was written becomes readable at the other end
Loop(c) == [c EXCEPT !.rd = @ \o c.wr, !.wr = <<>>]

InitStream ==
    /\ ch = NewChannel
    /\ src \in SeqsUpTo(DataBytes, MaxLen)
    /\ wpos = 0
    /\ w = NewFrameBridgingWriter(FrameTypeData, NoLimit, FrameCap)
    /\ wstate = "open"
    /\ r = ReadData
    /\ got = <<>>
    /\ rstate = "reading"
    /\ OpIdle /\ ServerIdle /\ HandlerIdle /\ PullIdle
    /\ CloseIdle /\ DaemonIdle

\* io.Copy in WriteData: one Write of the next k bytes of the source
StreamWrite(k) ==
    /\ wstate = "open"
    /\ wpos + k <= Len(src)
    /\ \E res \in { Write(w, ch, SubSeq(src, wpos + 1, wpos + k)) } :
           /\ ~res.err
           /\ w' = res.w
           /\ ch' = Loop(res.c)
    /\ wpos' = wpos + k
    /\ UNCHANGED << src, wstate, r, got, rstate, opVars, serverVars,
                    handlerVars, pullVars, closeVars,
                    daemonVars >>

\* w.Close() at the end of WriteData
StreamClose ==
    /\ wstate = "open"
    /\ wpos = Len(src)
    /\ \E res \in { Close(w, ch) } :
           /\ ~res.err
           /\ w' = res.w
           /\ ch' = Loop(res.c)
    /\ wstate' = "closed"
    /\ UNCHANGED << src, wpos, r, got, rstate, opVars, serverVars,
                    handlerVars, pullVars, closeVars,
                    daemonVars >>

\* One Read(b) of the consumer with len(b) = lenb; the channel hands over
\* at most nb bytes.
StreamRead(lenb, nb) ==
    /\ rstate = "reading"
    /\ \E res \in { ReadWith(r, ch, lenb, nb) } :
           /\ res.err # "block"
           /\ r' = res.r
           /\ ch' = res.c
           /\ got' = got \o res.n
           /\ rstate' = IF res.err = "nil" THEN "reading"
                        ELSE IF res.err = "EOF" THEN "eof" ELSE "err"
    /\ UNCHANGED << src, wpos, w, wstate, opVars, serverVars,
                    handlerVars, pullVars, closeVars,
                    daemonVars >>

NextStream ==
    \/ \E k \in 1..MaxLen : StreamWrite(k)
    \/ StreamClose
    \/ \E lenb \in 1..MaxBuf : \E nb \in 1..MaxBuf : StreamRead(lenb, nb)

SpecStream == InitStream /\ [][NextStream]_vars

\* C8: for every byte sequence S (the empty one and exact multiples of the
\* frame capacity included), what the bridging reader delivers is always a
\* prefix of S, the reader never fails, end-of-stream comes exactly when all
\* of S was delivered and every byte the writer put on the channel was
\* consumed, and once the writer has closed the reader never waits.
C8_RoundTrip ==
    /\ rstate # "err"
    /\ Len(got) <= Len(src)
    /\ got = Take(src, Len(got))
    /\ rstate = "eof" => (got = src /\ wstate = "closed" /\ ch.rd = <<>>)
    /\ (wstate = "closed" /\ rstate = "reading")
          => Read(r, ch, 1).err # "block"

\* A non-empty stream of a whole number of full frames was read to its end
C8_Witness ==
    /\ rstate = "eof"
    /\ Len(src) > 0
    /\ Len(src) % FrameCap = 0
    /\ got = src

\* ------------------------------------------------------------------------
\* SpecFrame: readFrame and writeFrame on frames of any declared length
\* ------------------------------------------------------------------------
FrameLengths == {1, MAX_PAYLOAD_LENGTH, MAX_PAYLOAD_LENGTH + 1}

Frames ==
    { Frame(t, nm, len) : t \in {FrameTypeHeader, FrameTypeData},
                          nm \in BOOLEAN, len \in FrameLengths }

InitFrame ==
    /\ ch = NewChannel
    /\ lastOp = NoOp
    /\ nOps = 0
    /\ StreamIdle /\ ServerIdle /\ HandlerIdle /\ PullIdle
    /\ CloseIdle /\ DaemonIdle

\* The peer sends a frame header and the first bytes of its payload
PeerSend(f, p) ==
    /\ nOps < MaxFrames
    /\ ~ch.eof
    /\ ch' = [ch EXCEPT !.rd = @ \o FrameBytes(f) \o p]
    /\ lastOp' = [NoOp EXCEPT !.op = "peer", !.f = f]
    /\ nOps' = nOps + 1
    /\ UNCHANGED << streamVars, serverVars,
                    handlerVars, pullVars, closeVars,
                    daemonVars >>

\* The peer closes the connection
PeerGone ==
    /\ ~ch.eof
    /\ ch' = [ch EXCEPT !.eof = TRUE]
    /\ lastOp' = [NoOp EXCEPT !.op = "gone"]
    /\ UNCHANGED << nOps, streamVars, serverVars,
                    handlerVars, pullVars, closeVars,
                    daemonVars >>

\* l.readFrame()
DoReadFrame ==
    /\ lastOp.op # "readFrame" \/ lastOp.err = "nil"
    /\ \E res \in { readFrame(ch) } :
           /\ res.err # "block"
           /\ ch' = res.c
           /\ lastOp' = [op |-> "readFrame", f |-> res.f, err |-> res.err,
                         before |-> ch.rd, after |-> res.c.rd]
    /\ UNCHANGED << nOps, streamVars, serverVars,
                    handlerVars, pullVars, closeVars,
                    daemonVars >>

\* l.writeFrame(f); the bytes written are kept for this call only
DoWriteFrame(f) ==
    /\ nOps < MaxFrames
    /\ nOps' = nOps + 1
    /\ \E res \in { writeFrame([ch EXCEPT !.wr = <<>>], f) } :
           /\ ch' = res.c
           /\ lastOp' = [op |-> "writeFrame", f |-> f,
                         err |-> IF res.err THEN "err" ELSE "nil",
                         before |-> <<>>, after |-> res.c.wr]
    /\ UNCHANGED << streamVars, serverVars,
                    handlerVars, pullVars, closeVars,
                    daemonVars >>

NextFrame ==
    \/ \E f \in Frames : \E p \in SeqsUpTo(DataBytes, 1) : PeerSend(f, p)
    \/ PeerGone
    \/ DoReadFrame
    \/ \E f \in Frames : DoWriteFrame(f)

SpecFrame == InitFrame /\ [][NextFrame]_vars

\* C9: readFrame and writeFrame return an error for every frame whose
\* PayloadLength exceeds MAX_PAYLOAD_LENGTH, and such a readFrame has taken
\* exactly the six header bytes off the channel.
C9_SizeGuard ==
    /\ (lastOp.op = "readFrame" /\ lastOp.f.PayloadLength > MAX_PAYLOAD_LENGTH)
          => /\ lastOp.err = "err"
             /\ Len(lastOp.before) >= 6
             /\ lastOp.after = Drop(lastOp.before, 6)
    /\ (lastOp.op = "writeFrame" /\ lastOp.f.PayloadLength > MAX_PAYLOAD_LENGTH)
          => lastOp.err = "err"

\* An oversized frame with payload behind it was read
C9_Witness ==
    /\ lastOp.op = "readFrame"
    /\ lastOp.f.PayloadLength = MAX_PAYLOAD_LENGTH + 1
    /\ Len(lastOp.after) > 0

\* ------------------------------------------------------------------------
\* SpecHangUp: calls on a message layer before and after HangUp
\* ------------------------------------------------------------------------
RequestHeader(e, dt, a) ==
    [Endpoint |-> e, DataType |-> dt, Accept |-> a, Error |-> 0,
     ErrorMessage |-> 0]

\* What a peer that uses the same message layer sends for a header and
\* for a header followed by a data message
PeerHeader(h) == WriteHeader(NewChannel, h).c.wr

PeerMessage(h, data) == WriteData(WriteHeader(NewChannel, h).c, data).c.wr

InitHangUp ==
    /\ \E rd \in { <<>>,
                    PeerHeader(RequestHeader(1, DataTypeOctets, DataTypeOctets)),
                    PeerMessage(RequestHeader(1, DataTypeOctets, DataTypeOctets),
                                << 1 >>) } :
          ch = [NewChannel EXCEPT !.rd = rd]
    /\ lastOp = NoOp
    /\ nOps = 0
    /\ StreamIdle /\ ServerIdle /\ HandlerIdle /\ PullIdle
    /\ CloseIdle /\ DaemonIdle

MLCall(op, res, err) ==
    /\ nOps < MaxOps
    /\ nOps' = nOps + 1
    /\ err # "block"
    /\ ch' = res.c
    /\ lastOp' = [NoOp EXCEPT !.op = op, !.err = err, !.after = res.c.wr]
    /\ UNCHANGED << streamVars, serverVars,
                    handlerVars, pullVars, closeVars,
                    daemonVars >>

Fresh(c) == [c EXCEPT !.wr = <<>>]

\* l.HangUp()
DoHangUp ==
    /\ ~ch.closed
    /\ \E res \in { HangUp(Fresh(ch)) } :
           MLCall("HangUp", res, IF res.err THEN "err" ELSE "nil")

\* l.ReadHeader()
DoReadHeader ==
    \E res \in { ReadHeader(Fresh(ch)) } :
        MLCall("ReadHeader", res,
               IF res.err \in {"nil", "block"} THEN res.err ELSE "err")

\* l.WriteHeader(h)
DoWriteHeader(h) ==
    \E res \in { WriteHeader(Fresh(ch), h) } :
        MLCall("WriteHeader", res, IF res.err THEN "err" ELSE "nil")

\* l.ReadData() read to its end
DoReadData ==
    \E res \in { ReadAll(ReadData, Fresh(ch), <<>>) } :
        MLCall("ReadData", res, res.err)

\* l.WriteData(source)
DoWriteData(source) ==
    \E res \in { WriteData(Fresh(ch), source) } :
        MLCall("WriteData", res, IF res.err THEN "err" ELSE "nil")

NextHangUp ==
    \/ PeerGone
    \/ DoHangUp
    \/ DoReadHeader
    \/ \E st \in {StatusOK, StatusRequestError} :
          DoWriteHeader([ZeroHeader EXCEPT !.Error = st])
    \/ DoReadData
    \/ \E source \in SeqsUpTo(DataBytes, 1) : DoWriteData(source)

SpecHangUp == InitHangUp /\ [][NextHangUp]_vars

MLCalls == {"ReadHeader", "WriteHeader", "ReadData", "WriteData"}

\* C10: HangUp writes one RST frame when the channel takes it, closes the
\* channel also when the RST frame could not be written, and every read
\* or write on the message layer after HangUp returns an error.
C10_HangUpTerminal ==
    /\ lastOp.op = "HangUp" => ch.closed
    /\ (lastOp.op = "HangUp" /\ lastOp.err = "nil")
          => lastOp.after = FrameBytes(Frame(FrameTypeRST, FALSE, 0))
    /\ (ch.closed /\ lastOp.op \in MLCalls) => lastOp.err # "nil"

\* ------------------------------------------------------------------------
\* The RPC server
\* ------------------------------------------------------------------------
\* Handlers by shape: 1 JSON -> JSON, 2 JSON -> Octets, 3 Octets -> JSON,
\* 4 Octets -> Octets, 5 a value that makeEndpointDescr rejects
Handlers == 1..5

ZeroDescr == [inType |-> 0, outType |-> 0, handler |-> 0]

\* makeEndpointDescr: err and the zero descriptor for a handler of the
\* wrong shape, otherwise the protocol types of In(0) and In(1)
makeEndpointDescr(handler) ==
    IF handler = 5 THEN [descr |-> ZeroDescr, err |-> "err"]
    ELSE [descr |-> [inType |-> IF handler \in {3, 4} THEN DataTypeOctets
                                ELSE DataTypeMarshaledJSON,
                     outType |-> IF handler \in {2, 4} THEN DataTypeOctets
                                 ELSE DataTypeMarshaledJSON,
                     handler |-> handler],
          err |-> "nil"]

\* The map with name bound to d
MapSet(m, name, d) ==
    [n \in DOMAIN m \cup {name} |-> IF n = name THEN d ELSE m[n]]

\* RegisterEndpoint that replaces the endpoint of a taken name
RegisterEndpointOverwrite(eps, name, handler) ==
    LET d == makeEndpointDescr(handler)
    IN  IF name \in DOMAIN eps
        THEN [eps |-> MapSet(eps, name, d.descr), err |-> "err"]
        ELSE [eps |-> MapSet(eps, name, d.descr), err |-> d.err]

\* Server.RegisterEndpoint: the map entry is assigned together with err
RegisterEndpoint(eps, name, handler) ==
    IF name \in DOMAIN eps THEN [eps |-> eps, err |-> "err"]
    ELSE LET d == makeEndpointDescr(handler)
         IN  [eps |-> MapSet(eps, name, d.descr), err |-> d.err]

\* fmt.Sprintf of the messages of ServeRequest, one byte per message
MsgUnregistered(name) == 20 + name
MsgWrongDataType(name) == 30 + name
MsgWrongAccept(name) == 40 + name
MsgCannotDecode == 50
MsgCannotMarshal == 60

\* NewErrorHeader
NewErrorHeader(status, msg) ==
    [ZeroHeader EXCEPT !.Error = status, !.ErrorMessage = msg]

\* What a handler call does: err = 0 and the output (val for a JSON
\* output, bytes for an io.Reader; marshalErr: json cannot encode val),
\* or err = the text of the error it returns.
HandlerErrorText == 71
HandlerReadErrorText == 72

HandlerOutcomes ==
    { [err |-> 0, val |-> 8, bytes |-> << >>, marshalErr |-> FALSE],
      [err |-> 0, val |-> 9, bytes |-> << 1 >>, marshalErr |-> FALSE],
      [err |-> 0, val |-> 8, bytes |-> << >>, marshalErr |-> TRUE],
      [err |-> HandlerErrorText, val |-> 0, bytes |-> << >>,
       marshalErr |-> FALSE] }

\* Server.writeResponse followed by the return of ServeRequest
Respond(res, c, reply) ==
    LET Sent(wh) == [res EXCEPT !.c = wh.c, !.replied = TRUE, !.reply = reply,
                                !.err = IF wh.err THEN "err" ELSE "nil"]
    IN  Sent(WriteHeader(c, reply))

\* The reply after a successful handler call where the header of an
\* Octets reply carries no status (as in Server.ServeConn)
AnswerNoStatus(res, c, ep, ho) ==
    LET Data(hd, out, wd) ==
            [hd EXCEPT !.c = wd.c, !.dataWritten = TRUE, !.data = out,
                       !.err = IF wd.err THEN "err" ELSE "nil"]
        Body(hd, out) == Data(hd, out, WriteData(hd.c, out))
    IN  IF ep.outType = DataTypeMarshaledJSON /\ ho.marshalErr
        THEN Respond(res, c, NewErrorHeader(StatusServerError, MsgCannotMarshal))
        ELSE Body(Respond(res, c, [ZeroHeader EXCEPT
                                     !.Error = IF ep.outType = DataTypeOctets
                                               THEN 0 ELSE StatusOK,
                                     !.DataType = ep.outType]),
                  IF ep.outType = DataTypeOctets THEN ho.bytes
                  ELSE EncodeBody(ho.val))

\* The reply of ServeRequest after a successful handler call
Answer(res, c, ep, ho) ==
    LET Data(hd, out, wd) ==
            [hd EXCEPT !.c = wd.c, !.dataWritten = TRUE, !.data = out,
                       !.err = IF wd.err THEN "err" ELSE "nil"]
        Body(hd, out) == IF hd.err # "nil" THEN hd
                         ELSE Data(hd, out, WriteData(hd.c, out))
    IN  IF ep.outType = DataTypeMarshaledJSON
        THEN IF ho.marshalErr
             THEN Respond(res, c, NewErrorHeader(StatusServerError,
                                                 MsgCannotMarshal))
             ELSE Body(Respond(res, c, [ZeroHeader EXCEPT
                                          !.Error = StatusOK,
                                          !.DataType = ep.outType]),
                       EncodeBody(ho.val))
        ELSE IF ep.outType = DataTypeOctets
        THEN Body(Respond(res, c, [ZeroHeader EXCEPT
                                     !.Error = StatusOK,
                                     !.DataType = DataTypeOctets]),
                  ho.bytes)
        ELSE [res EXCEPT !.c = c, !.err = "nil"]

\* The handler call of ServeRequest and what follows it. A handler with an
\* io.Reader input reads it to the end and fails when the reader fails.
CallHandler(res, c, ep, ho, readErr) ==
    LET called == [res EXCEPT !.handler = ep.handler]
    IN  IF readErr
        THEN Respond([called EXCEPT !.herr = HandlerReadErrorText], c,
                     NewErrorHeader(StatusError, HandlerReadErrorText))
        ELSE IF ho.err # 0
        THEN Respond([called EXCEPT !.herr = ho.err], c,
                     NewErrorHeader(StatusError, ho.err))
        ELSE Answer(called, c, ep, ho)

\* Server.ServeRequest (with Server.recvRequest) on channel c, where the
\* handler, if it is called, does ho. err: "nil", "err", "block" (the
\* request has not arrived completely) or "panic".
ServeRequest(eps, c, ho) ==
    LET Blocked == [NoServe EXCEPT !.c = c, !.err = "block"]
        \* the handler call, after the request body was read
        Call(res, c1, ep, ioerr) ==
            CallHandler([res EXCEPT !.ioerr = ioerr], c1, ep, ho, ioerr)
        \* the reply to a request that is refused
        Refuse(res, c1, ioerr, msg) ==
            Respond([res EXCEPT !.ioerr = ioerr], c1,
                    NewErrorHeader(StatusRequestError, msg))
        JSONBody(res, ep, d) ==
            IF d.err = "block" THEN Blocked
            ELSE IF d.err # "nil"
            THEN Refuse(res, d.c, d.err = "ioerr", MsgCannotDecode)
            ELSE Call(res, d.c, ep, FALSE)
        OctetsBody(res, ep, ra) ==
            IF ra.err = "block" THEN Blocked
            ELSE Call(res, ra.c, ep, ra.err # "nil")
        Checked(res, h, c1, ep) ==
            IF ep.inType # h.DataType
            THEN Refuse(res, c1, FALSE, MsgWrongDataType(h.Endpoint))
            ELSE IF ep.outType # h.Accept
            THEN Refuse(res, c1, FALSE, MsgWrongAccept(h.Endpoint))
            ELSE IF ep.inType = DataTypeMarshaledJSON
            THEN JSONBody(res, ep, Decode(ReadData, c1, <<>>))
            ELSE IF ep.inType = DataTypeOctets
            THEN OctetsBody(res, ep, ReadAll(ReadData, c1, <<>>))
            ELSE [res EXCEPT !.err = "panic"]
        Received(rh, res) ==
            IF rh.err = "block" THEN Blocked
            ELSE IF rh.err # "nil" THEN [NoServe EXCEPT !.c = rh.c, !.err = "err"]
            ELSE IF rh.h.Endpoint \notin DOMAIN eps
            THEN Refuse(res, rh.c, FALSE, MsgUnregistered(rh.h.Endpoint))
            ELSE Checked(res, rh.h, rh.c, eps[rh.h.Endpoint])
        Header(rh) ==
            Received(rh, [NoServe EXCEPT !.c = rh.c, !.hdr = TRUE, !.h = rh.h])
    IN  Header(ReadHeader(c))

\* ------------------------------------------------------------------------
\* Spec: endpoints are registered, then Serve serves one connection on
\* which a client sends requests
\* ------------------------------------------------------------------------
Names == {1}             \* names that get registered
ClientNames == {1, 3}    \* names a client asks for; 3 is never registered

Init ==
    /\ ch = NewChannel
    /\ endpoints = << >>
    /\ firstReg = << >>
    /\ lastReg = NoReg
    /\ phase = "setup"
    /\ reqSent = 0
    /\ respHdrs = 0
    /\ kinds = {}
    /\ last = NoServe
    /\ StreamIdle /\ OpIdle /\ HandlerIdle /\ PullIdle
    /\ CloseIdle /\ DaemonIdle

\* s.RegisterEndpoint(name, handler) before Serve is called
Register(name, handler) ==
    /\ phase = "setup"
    /\ \E res \in { RegisterEndpoint(endpoints, name, handler) } :
           /\ endpoints' = res.eps
           /\ lastReg' = [name |-> name, handler |-> handler,
                          dup |-> name \in DOMAIN endpoints, err |-> res.err]
    /\ firstReg' = IF name \in DOMAIN firstReg
                   THEN [firstReg EXCEPT ![name].refused = TRUE]
                   ELSE MapSet(firstReg, name,
                               [handler |-> handler, refused |-> FALSE])
    /\ UNCHANGED << ch, phase, reqSent, respHdrs, kinds, last, streamVars,
                    opVars,
                    handlerVars, pullVars, closeVars,
                    daemonVars >>

\* s.Serve() is called
StartServe ==
    /\ phase = "setup"
    /\ phase' = "serving"
    /\ lastReg' = NoReg
    /\ UNCHANGED << ch, endpoints, firstReg, reqSent, respHdrs, kinds, last,
                    streamVars, opVars,
                    handlerVars, pullVars, closeVars,
                    daemonVars >>

\* The kind of a request: "unreg", "mismatch" or "good" by its header,
\* "badjson" for a body that is no JSON value, "violation" for a data
\* frame above the frame size limit
Kind(e, dt, a, body) ==
    IF body = "oversize" THEN "violation"
    ELSE IF body = "badjson" THEN "badjson"
    ELSE IF e \notin DOMAIN endpoints THEN "unreg"
    ELSE IF endpoints[e].inType # dt \/ endpoints[e].outType # a
    THEN "mismatch"
    ELSE "good"

Bodies(dt) ==
    IF dt = DataTypeMarshaledJSON THEN {"json", "badjson", "oversize"}
    ELSE {"empty", "octets", "oversize"}

\* The bytes of a request: the header message, then the data message
RequestBytes(h, body) ==
    IF body = "oversize"
    THEN PeerHeader(h) \o FrameBytes(Frame(FrameTypeData, TRUE,
                                           MAX_PAYLOAD_LENGTH + 1))
    ELSE PeerMessage(h, IF body = "json" THEN EncodeBody(7)
                        ELSE IF body = "badjson" THEN << 7 >>
                        ELSE IF body = "octets" THEN << 2 >>
                        ELSE << >>)

\* Client.Call: the client, which has read a response header for each of
\* its earlier requests, sends the next request.
ClientSend(e, dt, a, body) ==
    /\ phase = "serving"
    /\ ~ch.eof
    /\ reqSent < MaxRequests
    /\ respHdrs >= reqSent
    /\ ch' = [ch EXCEPT !.rd = @ \o RequestBytes(RequestHeader(e, dt, a), body),
                        !.wr = <<>>]
    /\ kinds' = kinds \cup {Kind(e, dt, a, body)}
    /\ reqSent' = reqSent + 1
    /\ last' = NoServe
    /\ UNCHANGED << endpoints, firstReg, lastReg, phase, respHdrs, streamVars,
                    opVars,
                    handlerVars, pullVars, closeVars,
                    daemonVars >>

\* The client closes the connection
ClientClose ==
    /\ phase = "serving"
    /\ ~ch.eof
    /\ ch' = [ch EXCEPT !.eof = TRUE]
    /\ UNCHANGED << serverVars, streamVars, opVars,
                    handlerVars, pullVars, closeVars,
                    daemonVars >>

\* One iteration of the loop of Server.Serve: ServeRequest, and HangUp and
\* return when it reports an error.
ServeIteration(ho) ==
    /\ phase = "serving"
    /\ ho = NoOutcome <=> ServeRequest(endpoints, Fresh(ch), NoOutcome).handler = 0
    /\ \E s \in { ServeRequest(endpoints, Fresh(ch), ho) } :
           /\ s.err # "block"
           /\ ch' = IF s.err = "err" THEN HangUp(s.c).c ELSE s.c
           /\ phase' = IF s.err = "err" THEN "returned"
                        ELSE IF s.err = "panic" THEN "panic" ELSE "serving"
           /\ last' = [s EXCEPT !.c = NewChannel, !.hungup = (s.err = "err"),
                                !.ho = ho]
           /\ respHdrs' = IF s.replied /\ Len(s.c.wr) > 0
                          THEN respHdrs + 1 ELSE respHdrs
    /\ UNCHANGED << endpoints, firstReg, lastReg, reqSent, kinds, streamVars,
                    opVars,
                    handlerVars, pullVars, closeVars,
                    daemonVars >>

Next ==
    \/ \E name \in Names : \E handler \in Handlers : Register(name, handler)
    \/ StartServe
    \/ \E e \in ClientNames :
       \E dt \in {DataTypeMarshaledJSON, DataTypeOctets} :
       \E a \in {DataTypeMarshaledJSON, DataTypeOctets} :
       \E body \in Bodies(dt) : ClientSend(e, dt, a, body)
    \/ ClientClose
    \/ \E ho \in HandlerOutcomes \cup {NoOutcome} : ServeIteration(ho)

Spec == Init /\ [][Next]_vars

\* ------------------------------------------------------------------------
\* What the server put on the wire in the last iteration
\* ------------------------------------------------------------------------
BadFrame == [Type |-> 0 - 1, NoMoreFrames |-> TRUE, payload |-> <<>>]

\* The frames of a byte string by the wire format: six header bytes, then
\* PayloadLength payload bytes
RECURSIVE WireFrames(_)
WireFrames(b) ==
    IF Len(b) = 0 THEN <<>>
    ELSE IF Len(b) < 6 \/ Len(b) < 6 + Uint32(SubSeq(b, 3, 6))
    THEN << BadFrame >>
    ELSE LET len == Uint32(SubSeq(b, 3, 6))
         IN  << [Type |-> b[1], NoMoreFrames |-> b[2] # 0,
                 payload |-> SubSeq(b, 7, 6 + len)] >>
               \o WireFrames(Drop(b, 6 + len))

\* The messages of a sequence of frames: runs of frames of one type that
\* end with the first frame that has NoMoreFrames set
RECURSIVE WireMessages(_, _)
WireMessages(fs, open) ==
    IF Len(fs) = 0
    THEN IF Len(open) = 0 THEN <<>> ELSE << [Type |-> 0 - 1, payload |-> <<>>] >>
    ELSE LET f == fs[1]
             cur == IF Len(open) = 0 THEN [Type |-> f.Type, payload |-> f.payload]
                    ELSE IF open[1].Type = f.Type
                    THEN [Type |-> f.Type, payload |-> open[1].payload \o f.payload]
                    ELSE [Type |-> 0 - 1, payload |-> <<>>]
         IN  IF f.NoMoreFrames \/ cur.Type = 0 - 1
             THEN << cur >> \o WireMessages(Drop(fs, 1), <<>>)
             ELSE WireMessages(Drop(fs, 1), << cur >>)

Written == WireMessages(WireFrames(ch.wr), <<>>)

\* The i-th message written is a header message; its fields
IsHeaderAt(i) ==
    /\ Len(Written) >= i
    /\ Written[i].Type = FrameTypeHeader
    /\ ScanValue(Written[i].payload, 1).state = "ok"

HeaderAt(i) ==
    LET obj == ScanValue(Written[i].payload, 1).obj
    IN  [Error |-> Field(obj, KeyError), DataType |-> Field(obj, KeyDataType),
         ErrorMessage |-> Field(obj, KeyErrorMessage)]

Registered(h) == h.Endpoint \in DOMAIN endpoints

TypesMatch(h) ==
    /\ endpoints[h.Endpoint].inType = h.DataType
    /\ endpoints[h.Endpoint].outType = h.Accept

\* The last iteration called the handler and the handler succeeded
HandlerSucceeded == last.handler # 0 /\ last.herr = 0

\* C1: a request for an unregistered endpoint is answered with one header
\* RequestError / "unregistered endpoint <name>" and no hang-up; while the
\* client sends only well-formed requests, for unregistered endpoints or
\* matching registered ones, Serve does not return, every header the server
\* reads is a header the client sent (not more responses than requests),
\* and a request to a registered endpoint whose handler succeeds is
\* answered with OK.
C1_UnregisteredEndpoint ==
    /\ (last.hdr /\ ~Registered(last.h) /\ ~ch.eof)
          => /\ Len(Written) = 1
             /\ IsHeaderAt(1)
             /\ HeaderAt(1).Error = StatusRequestError
             /\ HeaderAt(1).ErrorMessage = MsgUnregistered(last.h.Endpoint)
             /\ ~last.hungup
    /\ (kinds \subseteq {"unreg", "good"} /\ ~ch.eof)
          => /\ phase \in {"setup", "serving"}
             /\ respHdrs <= reqSent
             /\ last.hdr => last.h.Endpoint \in ClientNames
             /\ (HandlerSucceeded /\ ~last.ho.marshalErr)
                   => (IsHeaderAt(1) /\ HeaderAt(1).Error = StatusOK)

\* C2: the server never has written more response headers than the client
\* has sent request headers, and when the server has read everything the
\* client sent, it has written exactly one response header per request.
C2_Alternation ==
    /\ respHdrs <= reqSent
    /\ (phase = "serving" /\ ~ch.eof /\ ch.rd = <<>>) => respHdrs = reqSent

\* C3: the loop of Serve ends with HangUp exactly when the iteration met a
\* protocol-layer error: a failed header read (then no response header is
\* written), a frame-level failure while the request data was read, or a
\* failed write; an answer RequestError or ServerError that was written
\* does not end it.
C3_HangUpIffProtocolError ==
    /\ (last.err # "none" /\ ~last.hdr)
          => (last.hungup /\ \A i \in 1..Len(Written) :
                                Written[i].Type # FrameTypeHeader)
    /\ last.ioerr => last.hungup
    /\ last.hungup => (~last.hdr \/ last.ioerr \/ last.err = "err")
    /\ (last.replied /\ ~ch.eof /\ ~last.ioerr
           /\ last.reply.Error \in {StatusRequestError, StatusServerError})
          => ~last.hungup

\* C4: when the handler returns an error, exactly one message is written,
\* a header with Error = ServerError and the handler's error text, and
\* Serve goes on.
C4_HandlerError ==
    (last.handler # 0 /\ last.herr # 0 /\ ~ch.eof)
      => /\ Len(Written) = 1
         /\ IsHeaderAt(1)
         /\ HeaderAt(1).Error = StatusServerError
         /\ HeaderAt(1).ErrorMessage = last.herr
         /\ phase = "serving"

\* C5: a request whose DataType or Accept does not match the endpoint is
\* answered with RequestError without a handler call and without hang-up,
\* and while the client sends only well-formed requests, mismatching or
\* matching, Serve does not return and every header the server reads is a
\* header the client sent.
C5_TypeMismatch ==
    /\ (last.hdr /\ Registered(last.h) /\ ~TypesMatch(last.h) /\ ~ch.eof)
          => /\ Len(Written) = 1
             /\ IsHeaderAt(1)
             /\ HeaderAt(1).Error = StatusRequestError
             /\ last.handler = 0
             /\ ~last.hungup
    /\ (kinds \subseteq {"mismatch", "good"} /\ ~ch.eof)
          => /\ phase \in {"setup", "serving"}
             /\ respHdrs <= reqSent
             /\ last.hdr => last.h.Endpoint \in ClientNames

\* C6: when the handler succeeds (and its JSON output can be marshaled),
\* exactly two messages are written: a header with Error = OK and DataType
\* = the endpoint's output type, then one data message that carries the
\* handler's output, for JSON and for Octets outputs.
C6_SuccessReply ==
    (HandlerSucceeded /\ ~ch.eof
       /\ (endpoints[last.h.Endpoint].outType = DataTypeMarshaledJSON
             => ~last.ho.marshalErr))
      => /\ Len(Written) = 2
         /\ IsHeaderAt(1)
         /\ HeaderAt(1).Error = StatusOK
         /\ HeaderAt(1).DataType = endpoints[last.h.Endpoint].outType
         /\ Written[2].Type = FrameTypeData
         /\ IF endpoints[last.h.Endpoint].outType = DataTypeOctets
            THEN Written[2].payload = last.ho.bytes
            ELSE LET v == ScanValue(Written[2].payload, 1)
                 IN  v.state = "ok" /\ Field(v.obj, KeyBody) = last.ho.val
         /\ ~last.hungup

\* A handler with an Octets output succeeded with a non-empty stream
C6_Witness ==
    /\ HandlerSucceeded
    /\ ~ch.eof
    /\ endpoints[last.h.Endpoint].outType = DataTypeOctets
    /\ last.ho.bytes # <<>>
    /\ Len(Written) = 2

\* C7: RegisterEndpoint for a taken name returns an error, every name
\* keeps the endpoint of its first registration, and the handler that
\* serves a request is the one registered first under the name.
C7_RegisterTaken ==
    /\ lastReg.dup => lastReg.err = "err"
    /\ \A n \in DOMAIN firstReg :
          /\ n \in DOMAIN endpoints
          /\ endpoints[n] = makeEndpointDescr(firstReg[n].handler).descr
    /\ last.handler # 0 => last.handler = firstReg[last.h.Endpoint].handler

\* A request was served by the first handler of a name for which a later
\* registration was refused
C7_Witness ==
    /\ last.handler # 0
    /\ firstReg[last.h.Endpoint].refused

\* ------------------------------------------------------------------------
\* SpecHandler: the request handlers of the serving side. The filters are
\* fixed at the start; every handler call is made with every request.
\* ------------------------------------------------------------------------
\* The dataset paths and the versions a request may name
HPaths == {1, 2}

HVersions == {1, 2}

\* What a filter returns: (true, nil), (false, nil) or an error
FilterResults == {"pass", "deny", "err"}

\* The error texts of the handlers, one byte per text
MsgACLError == 73

MsgVersionFilterError == 74

MsgListError == 75

MsgSendError == 76

MsgProhibitsPath(p) == 80 + p

MsgProhibitsVersion(p, v) == 90 + 2 * (p - 1) + (v - 1)

\* Handler.pullACLCheck(p, v), v = 0 for nil: the error it returns, 0 for nil
pullACLCheck(p, v) ==
    IF dsf[p] = "err" THEN MsgACLError
    ELSE IF dsf[p] = "deny" THEN MsgProhibitsPath(p)
    ELSE IF v = 0 THEN 0
    ELSE IF fsvf[v] = "err" THEN MsgVersionFilterError
    ELSE IF fsvf[v] = "deny" THEN MsgProhibitsVersion(p, v)
    ELSE 0

\* A ZFS invocation of a handler
ZFSList(p) == [op |-> "list", path |-> p, from |-> 0, to |-> 0]

ZFSSend(p, from, to) == [op |-> "send", path |-> p, from |-> from, to |-> to]

\* Handler.HandleFilesystemVersionsRequest; zerr: the listing fails. The
\* result of pullACLCheck is not assigned: the err that is tested is the
\* named result, which is nil.
HandleFilesystemVersionsRequest(p, zerr) ==
    LET Tested(acl, err) ==
            IF err # 0 THEN [zfs |-> << >>, err |-> err]
            ELSE [zfs |-> << ZFSList(p) >>,
                  err |-> IF zerr THEN MsgListError ELSE 0]
    IN  Tested(pullACLCheck(p, 0), 0)

\* HandleInitialTransferRequest that checks the path only
HandleInitialTransferRequestPathOnly(p, v, zerr) ==
    LET Tested(err) ==
            IF err # 0 THEN [zfs |-> << >>, err |-> err]
            ELSE [zfs |-> << ZFSSend(p, v, 0) >>,
                  err |-> IF zerr THEN MsgSendError ELSE 0]
    IN  Tested(pullACLCheck(p, 0))

\* Handler.HandleInitialTransferRequest; zerr: ZFSSend fails
HandleInitialTransferRequest(p, v, zerr) ==
    LET Tested(err) ==
            IF err # 0 THEN [zfs |-> << >>, err |-> err]
            ELSE [zfs |-> << ZFSSend(p, v, 0) >>,
                  err |-> IF zerr THEN MsgSendError ELSE 0]
    IN  Tested(pullACLCheck(p, v))

\* HandleIncrementalTransferRequest that checks the from version only
HandleIncrementalTransferRequestFromOnly(p, from, to, zerr) ==
    LET Tested(err) ==
            IF err # 0 THEN [zfs |-> << >>, err |-> err]
            ELSE [zfs |-> << ZFSSend(p, from, to) >>,
                  err |-> IF zerr THEN MsgSendError ELSE 0]
    IN  Tested(pullACLCheck(p, from))

\* Handler.HandleIncrementalTransferRequest; zerr: ZFSSend fails
HandleIncrementalTransferRequest(p, from, to, zerr) ==
    LET Sent(err) ==
            IF err # 0 THEN [zfs |-> << >>, err |-> err]
            ELSE [zfs |-> << ZFSSend(p, from, to) >>,
                  err |-> IF zerr THEN MsgSendError ELSE 0]
        Second(err) == IF err # 0 THEN [zfs |-> << >>, err |-> err]
                       ELSE Sent(pullACLCheck(p, to))
    IN  Second(pullACLCheck(p, from))

\* What ServeRequest does with the result hr of a handler of the given
\* shape (see Handlers)
HandlerReply(hr, shape) ==
    CallHandler(NoServe, NewChannel, makeEndpointDescr(shape).descr,
                [err |-> hr.err, val |-> 8, bytes |-> << 1 >>,
                 marshalErr |-> FALSE], FALSE)

InitHandler ==
    /\ dsf \in [HPaths -> FilterResults]
    /\ fsvf \in [HVersions -> FilterResults]
    /\ hlast = NoHandlerCall
    /\ ch = NewChannel
    /\ StreamIdle /\ OpIdle /\ ServerIdle /\ PullIdle
    /\ CloseIdle /\ DaemonIdle

\* The call of a handler by ServeRequest and the reply to the client
Handled(op, p, from, to, hr, shape) ==
    /\ \E sr \in { HandlerReply(hr, shape) } :
           hlast' = [op |-> op, path |-> p, from |-> from, to |-> to,
                     zfs |-> hr.zfs, err |-> hr.err, reply |-> sr.reply,
                     dataWritten |-> sr.dataWritten]
    /\ UNCHANGED << ch, dsf, fsvf, streamVars, opVars, serverVars, pullVars,
                    closeVars, daemonVars >>

DoFilesystemVersionsRequest(p, zerr) ==
    Handled("FilesystemVersionsRequest", p, 0, 0,
            HandleFilesystemVersionsRequest(p, zerr), 1)

DoInitialTransferRequest(p, v, zerr) ==
    Handled("InitialTransferRequest", p, v, 0,
            HandleInitialTransferRequest(p, v, zerr), 2)

DoIncrementalTransferRequest(p, from, to, zerr) ==
    Handled("IncrementalTransferRequest", p, from, to,
            HandleIncrementalTransferRequest(p, from, to, zerr), 2)

NextHandler ==
    \/ \E p \in HPaths : \E zerr \in BOOLEAN :
          DoFilesystemVersionsRequest(p, zerr)
    \/ \E p \in HPaths : \E v \in HVersions : \E zerr \in BOOLEAN :
          DoInitialTransferRequest(p, v, zerr)
    \/ \E p \in HPaths : \E from \in HVersions : \E to \in HVersions :
       \E zerr \in BOOLEAN : DoIncrementalTransferRequest(p, from, to, zerr)

SpecHandler == InitHandler /\ [][NextHandler]_vars

\* C11: HandleFilesystemVersionsRequest for a path that the dataset filter
\* denies, or for which the filter fails, returns an error and does not
\* invoke the ZFS version listing.
C11_VersionsACL ==
    (hlast.op = "FilesystemVersionsRequest" /\ dsf[hlast.path] # "pass")
      => (hlast.err # 0 /\ hlast.zfs = << >>)

\* C12: HandleInitialTransferRequest invokes ZFS send only when the dataset
\* filter admits the path and the version filter admits the version; when
\* either denies or fails, it returns an error, no send is invoked and no
\* data message follows the reply header.
C12_InitialTransferACL ==
    hlast.op = "InitialTransferRequest"
      => /\ hlast.zfs # << >>
              => /\ dsf[hlast.path] = "pass" /\ fsvf[hlast.from] = "pass"
                 /\ hlast.zfs = << ZFSSend(hlast.path, hlast.from, 0) >>
         /\ (dsf[hlast.path] # "pass" \/ fsvf[hlast.from] # "pass")
              => (hlast.err # 0 /\ hlast.zfs = << >> /\ ~hlast.dataWritten)

\* The dataset filter admits the path, the version filter denies the version
C12_Witness ==
    /\ hlast.op = "InitialTransferRequest"
    /\ dsf[hlast.path] = "pass" /\ fsvf[hlast.from] = "deny"
    /\ hlast.err = MsgProhibitsVersion(hlast.path, hlast.from)

\* C13: HandleIncrementalTransferRequest invokes ZFS send(path, from, to)
\* only when the dataset filter admits the path and the version filter
\* admits from and to; a denial of any of the three returns an error, no
\* send is invoked and no data message follows the reply header.
C13_IncrementalTransferACL ==
    hlast.op = "IncrementalTransferRequest"
      => /\ hlast.zfs # << >>
              => /\ dsf[hlast.path] = "pass" /\ fsvf[hlast.from] = "pass"
                 /\ fsvf[hlast.to] = "pass"
                 /\ hlast.zfs = << ZFSSend(hlast.path, hlast.from, hlast.to) >>
         /\ (dsf[hlast.path] # "pass" \/ fsvf[hlast.from] # "pass"
               \/ fsvf[hlast.to] # "pass")
              => (hlast.err # 0 /\ hlast.zfs = << >> /\ ~hlast.dataWritten)

\* Path and from version are admitted, the to version is denied
C13_Witness ==
    /\ hlast.op = "IncrementalTransferRequest"
    /\ dsf[hlast.path] = "pass" /\ fsvf[hlast.from] = "pass"
    /\ fsvf[hlast.to] = "deny"
    /\ hlast.err = MsgProhibitsVersion(hlast.path, hlast.to)

\* C14: when a filter denies the path or a version of a request, the reply
\* header has Error = RequestError and the message for the denied entity,
\* the same on every request.
C14_DenyIsRequestError ==
    /\ (hlast.op # "none" /\ dsf[hlast.path] = "deny")
          => /\ hlast.reply.Error = StatusRequestError
             /\ hlast.reply.ErrorMessage = MsgProhibitsPath(hlast.path)
    /\ (hlast.op \in {"InitialTransferRequest", "IncrementalTransferRequest"}
          /\ dsf[hlast.path] = "pass" /\ fsvf[hlast.from] = "deny")
          => /\ hlast.reply.Error = StatusRequestError
             /\ hlast.reply.ErrorMessage
                  = MsgProhibitsVersion(hlast.path, hlast.from)

\* ------------------------------------------------------------------------
\* Dataset paths, the dataset path forest and the version diff
\* ------------------------------------------------------------------------
\* Versions have the GUIDs 1..MaxVersions; a list of versions is in creation
\* order, which is the order of the GUIDs
MaxVersions == 2

\* The remote dataset paths
RemotePaths == {1, 2}

\* The local paths the mapping may produce: backup/a, backup/a/b, backup/c
\* and the root tank, with backup = << 1 >> and tank = << 2 >>
LocalTargets == { << 1, 1 >>, << 1, 1, 1 >>, << 1, 2 >>, << 2 >> }

Prefixes(p) == { SubSeq(p, 1, k) : k \in 1..Len(p) }

\* The local paths of the model: the targets and their ancestors
LocalPaths == UNION { Prefixes(t) : t \in LocalTargets }

Parent(p) == SubSeq(p, 1, Len(p) - 1)

\* p is a proper descendant of a
IsBelow(p, a) == Len(p) > Len(a) /\ SubSeq(p, 1, Len(a)) = a

Elems(s) == { s[i] : i \in DOMAIN s }

\* zfs.NewDatasetPathForest: the nodes in the order of their insertion, and
\* the nodes that were added explicitly
NewDatasetPathForest == [order |-> << >>, explicit |-> {}]

RECURSIVE AddNodes(_, _, _)
\* The path and its prefixes inserted as nodes, from prefix k on
AddNodes(order, path, k) ==
    IF k > Len(path) THEN order
    ELSE AddNodes(IF SubSeq(path, 1, k) \in Elems(order) THEN order
                  ELSE Append(order, SubSeq(path, 1, k)), path, k + 1)

\* DatasetPathForest.Add
ForestAdd(f, path) ==
    [order |-> AddNodes(f.order, path, 1),
     explicit |-> f.explicit \cup { path }]

\* DatasetPathVisit.FilledIn of node n
FilledIn(f, n) == n \notin f.explicit

\* The children of node n (the roots for the empty path), as inserted
Children(f, n) ==
    SelectSeq(f.order, LAMBDA x : Len(x) = Len(n) + 1 /\ Parent(x) = n)

RECURSIVE Preorder(_, _)
\* The nodes of the subtrees rooted at the nodes of ns, in preorder
Preorder(f, ns) ==
    IF ns = << >> THEN << >>
    ELSE << Head(ns) >> \o Preorder(f, Children(f, Head(ns)))
           \o Preorder(f, Tail(ns))

\* DatasetPathForest.WalkTopDown: the nodes in the order of their visits
\* when no visit returns false
WalkOrder(f) == Preorder(f, Children(f, << >>))

\* WalkTopDown after the visit of the first node of todo returned ret: a
\* false aborts the subtree rooted at that node
WalkRest(td, ret) ==
    IF ret THEN Tail(td)
    ELSE SelectSeq(Tail(td), LAMBDA x : ~IsBelow(x, Head(td)))

Guids == 1..MaxVersions

VersionTypes == {"Snapshot", "Bookmark"}

\* The versions with the GUIDs of S and the types ty, in creation order
VersionList(S, ty) ==
    [i \in 1..Cardinality(S) |->
        [Guid |-> CHOOSE g \in S : Cardinality({ h \in S : h < g }) = i - 1,
         Type |-> ty[CHOOSE g \in S : Cardinality({ h \in S : h < g }) = i - 1]]]

\* All creation-ordered version lists over the GUIDs G
VersionListsOver(G) ==
    { VersionList(S, ty) : S \in SUBSET G, ty \in [G -> VersionTypes] }

VersionLists == VersionListsOver(Guids)

\* The last index of vs whose GUID is one of vs2, 0 if there is none
RECURSIVE LastCommon(_, _, _)
LastCommon(vs, vs2, i) ==
    IF i = 0 THEN 0
    ELSE IF \E j \in DOMAIN vs2 : vs2[j].Guid = vs[i].Guid THEN i
    ELSE LastCommon(vs, vs2, i - 1)

FilesystemDiff(conflict, left, right, path) ==
    [Conflict |-> conflict, MRCAPathLeft |-> left, MRCAPathRight |-> right,
     IncrementalPath |-> path]

\* zfs.MakeFilesystemDiff(left, right)
MakeFilesystemDiff(left, right) ==
    LET Tails(il, ir) ==
            IF il = 0 THEN FilesystemDiff("NoCommonAncestor", left, right, << >>)
            ELSE IF il = Len(left)
            THEN FilesystemDiff("Incremental", << >>, << >>,
                                SubSeq(right, ir, Len(right)))
            ELSE FilesystemDiff("Diverged", SubSeq(left, il + 1, Len(left)),
                                SubSeq(right, ir + 1, Len(right)), << >>)
    IN  IF left = << >> /\ right # << >>
        THEN FilesystemDiff("AllRight", << >>, right, << >>)
        ELSE IF left = << >> /\ right = << >>
        THEN FilesystemDiff("Incremental", << >>, << >>, << >>)
        ELSE Tails(LastCommon(left, right, Len(left)),
                   LastCommon(right, left, Len(right)))

\* ------------------------------------------------------------------------
\* SpecPull: one cycle of doPull
\* ------------------------------------------------------------------------
InitialReplPolicyMostRecent == "most_recent"

InitialReplPolicyAll == "all"

\* What DatasetMapping.Map returns: a local path, nil (the empty path, no
\* match) or an error
MapResults ==
    { [Local |-> t, err |-> FALSE] : t \in LocalTargets \cup { << >> } }
      \cup { [Local |-> << >>, err |-> TRUE] }

FsStates == {"absent", "placeholder", "present"}

\* The local filesystems when doPull starts: a filesystem exists only if its
\* parent does. Filesystems that are no target and no ancestor of a target
\* play no part and are left absent.
LocalStates(targets) ==
    { s \in [LocalPaths -> FsStates] :
        \A p \in LocalPaths :
            s[p] # "absent"
              => /\ Len(p) > 1 => s[Parent(p)] # "absent"
                 /\ \E t \in targets : p \in Prefixes(t) }

\* The replies to FilesystemRequest: the remote paths, in their order
RemoteLists ==
    { l \in [1..Cardinality(RemotePaths) -> RemotePaths] :
        \A i, j \in DOMAIN l : i < j => l[i] < l[j] }

NoVersion == [Guid |-> 0, Type |-> "none"]

\* An operation that doPull invokes: a remote call or a ZFS operation, for
\* the mapping of Remote to Local
Op(op, remote, local, from, to, flags) ==
    [op |-> op, Remote |-> remote, Local |-> local, From |-> from,
     To |-> to, flags |-> flags, ok |-> TRUE]

\* The operations of ops up to the k-th, which fails; all of them for k = 0
FailAt(ops, k) ==
    IF k = 0 THEN ops
    ELSE [i \in 1..k |-> IF i = k THEN [ops[i] EXCEPT !.ok = FALSE] ELSE ops[i]]

\* The result of a visit
Visited(ret, ops, err) == [ret |-> ret, ops |-> ops, err |-> err, panic |-> FALSE]

Panicked == [ret |-> FALSE, ops |-> << >>, err |-> "nil", panic |-> TRUE]

\* A visitor for a filled-in node that creates no placeholder
visitFilledInNoCreate(path, cache, createFails) == Visited(TRUE, << >>, "keep")

\* A visitor for a filled-in node that goes on below a placeholder that it
\* could not create
visitFilledInGoOn(path, cache, createFails) ==
    IF cache[path] # "absent" THEN Visited(TRUE, << >>, "keep")
    ELSE Visited(TRUE,
                 FailAt(<< Op("ZFSCreatePlaceholderFilesystem", 0, path,
                              NoVersion, NoVersion, << >>) >>,
                        IF createFails THEN 1 ELSE 0),
                 IF createFails THEN "ZFSCreatePlaceholderFilesystem"
                 ELSE "nil")

\* The visitor of doPull for a filled-in node
visitFilledIn(path, cache, createFails) ==
    IF cache[path] # "absent" THEN Visited(TRUE, << >>, "keep")
    ELSE Visited(~createFails,
                 FailAt(<< Op("ZFSCreatePlaceholderFilesystem", 0, path,
                              NoVersion, NoVersion, << >>) >>,
                        IF createFails THEN 1 ELSE 0),
                 IF createFails THEN "ZFSCreatePlaceholderFilesystem"
                 ELSE "nil")

\* snapsOnly without the test of the type
snapsOnlyAll(MRCAPathRight) == MRCAPathRight

\* snapsOnly of the initial sync
snapsOnly(MRCAPathRight) ==
    SelectSeq(MRCAPathRight, LAMBDA v : v.Type = "Snapshot")

\* recvArgs without the forced rollback
recvArgsNoForce(placeholder) == << "-u" >>

\* recvArgs with the forced rollback for every target
recvArgsForce(placeholder) == << "-u", "-F" >>

\* recvArgs of the initial sync
recvArgs(placeholder) == IF placeholder THEN << "-u", "-F" >> ELSE << "-u" >>

\* The operations of the initial sync of mapping m when none fails
InitialOps(m, placeholder, snaps) ==
    << Op("InitialTransferRequest", m.Remote, m.Local, snaps[Len(snaps)],
          NoVersion, << >>),
       Op("ZFSRecv", m.Remote, m.Local, NoVersion, NoVersion,
          recvArgs(placeholder)),
       Op("ZFSSet", m.Remote, m.Local, NoVersion, NoVersion, << >>) >>

\* The operations along the incremental path when none fails
\* An incremental loop whose every step starts from the first version of the
\* path
IncrementalOpsFromFirst(m, path) ==
    [i \in 1..(2 * (Len(path) - 1)) |->
        IF i % 2 = 1
        THEN Op("IncrementalTransferRequest", m.Remote, m.Local,
                path[1], path[(i + 1) \div 2 + 1], << >>)
        ELSE Op("ZFSRecv", m.Remote, m.Local, NoVersion, NoVersion, << >>)]

IncrementalOps(m, path) ==
    [i \in 1..(2 * (Len(path) - 1)) |->
        IF i % 2 = 1
        THEN Op("IncrementalTransferRequest", m.Remote, m.Local,
                path[(i + 1) \div 2], path[(i + 1) \div 2 + 1], << >>)
        ELSE Op("ZFSRecv", m.Remote, m.Local, NoVersion, NoVersion, << >>)]

\* The transfer operations that the visitor invokes for diff when none fails
TransferOps(m, localState, policy, diff) ==
    IF localState = "placeholder" /\ diff.Conflict # "AllRight" THEN << >>
    ELSE IF diff.Conflict = "AllRight"
    THEN IF policy # InitialReplPolicyMostRecent
            \/ snapsOnly(diff.MRCAPathRight) = << >>
         THEN << >>
         ELSE InitialOps(m, localState = "placeholder",
                         snapsOnly(diff.MRCAPathRight))
    ELSE IF diff.Conflict = "Incremental" /\ Len(diff.IncrementalPath) >= 2
    THEN IncrementalOps(m, diff.IncrementalPath)
    ELSE << >>

\* A visitor that follows the remote-only versions when there is no common
\* ancestor
syncByDiffFollowRight(m, localState, policy, diff, k) ==
    LET Ran(ops, ret) ==
            Visited(ret, FailAt(ops, k), IF k = 0 THEN "nil" ELSE ops[k].op)
    IN  IF localState = "placeholder" /\ diff.Conflict # "AllRight"
        THEN Panicked
        ELSE IF diff.Conflict = "AllRight"
        THEN IF policy # InitialReplPolicyMostRecent THEN Panicked
             ELSE IF Len(snapsOnly(diff.MRCAPathRight)) < 1
             THEN Visited(FALSE, << >>, "nil")
             ELSE Ran(InitialOps(m, localState = "placeholder",
                                 snapsOnly(diff.MRCAPathRight)),
                      k \notin {1, 2})
        ELSE IF diff.Conflict = "Incremental"
        THEN IF Len(diff.IncrementalPath) < 2
             THEN Visited(TRUE, << >>, "nil")
             ELSE Ran(IncrementalOps(m, diff.IncrementalPath), k = 0)
        ELSE IF Len(diff.MRCAPathRight) < 2
        THEN Visited(FALSE, << >>, "nil")
        ELSE Visited(TRUE, IncrementalOps(m, diff.MRCAPathRight), "nil")

\* The visitor of doPull from the diff on; the k-th transfer operation fails
syncByDiff(m, localState, policy, diff, k) ==
    LET Ran(ops, ret) ==
            Visited(ret, FailAt(ops, k), IF k = 0 THEN "nil" ELSE ops[k].op)
    IN  IF localState = "placeholder" /\ diff.Conflict # "AllRight"
        THEN Panicked
        ELSE IF diff.Conflict = "AllRight"
        THEN IF policy # InitialReplPolicyMostRecent THEN Panicked
             ELSE IF Len(snapsOnly(diff.MRCAPathRight)) < 1
             THEN Visited(FALSE, << >>, "nil")
             ELSE Ran(InitialOps(m, localState = "placeholder",
                                 snapsOnly(diff.MRCAPathRight)),
                      k \notin {1, 2})
        ELSE IF diff.Conflict = "Incremental"
        THEN IF Len(diff.IncrementalPath) < 2
             THEN Visited(TRUE, << >>, "nil")
             ELSE Ran(IncrementalOps(m, diff.IncrementalPath), k = 0)
        ELSE Visited(FALSE, << >>, "nil")

\* A listing of versions: an error or the versions
NoListing == [err |-> TRUE, versions |-> << >>]

Listing(vs) == [err |-> FALSE, versions |-> vs]

\* A visitor that hands the version lists to MakeFilesystemDiff in the wrong
\* order
diffVersionsSwapped(versions, theirVersions) ==
    MakeFilesystemDiff(theirVersions, versions)

\* diff := zfs.MakeFilesystemDiff(versions, theirVersions)
diffVersions(versions, theirVersions) ==
    MakeFilesystemDiff(versions, theirVersions)

\* The visitor of doPull for the node of mapping m: lst is what
\* ZFSListFilesystemVersions returns, rem what FilesystemVersionsRequest
\* returns, and the k-th transfer operation fails
visitMapped(m, localState, policy, lst, rem, k) ==
    LET Listed ==
            IF localState = "present"
            THEN << Op("ZFSListFilesystemVersions", m.Remote, m.Local, NoVersion,
                       NoVersion, << >>) >>
            ELSE << >>
        Requested ==
            << Op("FilesystemVersionsRequest", m.Remote, m.Local, NoVersion,
                  NoVersion, << >>) >>
        After(diff, v) ==
            [ret |-> v.ret, ops |-> Listed \o Requested \o v.ops,
             err |-> v.err, panic |-> v.panic, Conflict |-> diff.Conflict,
             diff |-> diff]
        Diffed(diff) ==
            After(diff, syncByDiff(m, localState, policy, diff, k))
    IN  IF localState = "present" /\ lst.err
        THEN [ret |-> FALSE, ops |-> FailAt(Listed, 1),
              err |-> "ZFSListFilesystemVersions", panic |-> FALSE,
              Conflict |-> "none", diff |-> NoDiff]
        ELSE IF rem.err
        THEN [ret |-> FALSE, ops |-> Listed \o FailAt(Requested, 1),
              err |-> "FilesystemVersionsRequest", panic |-> FALSE,
              Conflict |-> "none", diff |-> NoDiff]
        ELSE Diffed(diffVersions(lst.versions, rem.versions))

\* The version lists of a local filesystem: what it has received are snapshots
LocalVersionLists ==
    { vs \in VersionLists : \A i \in DOMAIN vs : vs[i].Type = "Snapshot" }

\* What the two listings of a visit may return, for the local state ls
VisitOutcomesOver(ls, locals, remotes) ==
    (IF ls = "present" THEN { [lst |-> NoListing, rem |-> NoListing] } ELSE {})
      \cup { [lst |-> Listing(l), rem |-> rr] :
               l \in (IF ls = "present" THEN locals ELSE { << >> }),
               rr \in { NoListing } \cup { Listing(v) : v \in remotes } }

VisitOutcomes(ls) == VisitOutcomesOver(ls, LocalVersionLists, VersionLists)

InitPull ==
    /\ pull \in [Mapping : [RemotePaths -> MapResults],
                 InitialReplPolicy :
                     {InitialReplPolicyMostRecent, InitialReplPolicyAll}]
    /\ zfsState \in LocalStates({ pull.Mapping[rp].Local : rp \in RemotePaths })
    /\ remoteFilesystems = << >> /\ nextFs = 0 /\ replMapping = {}
    /\ localTraversal = NewDatasetPathForest
    /\ localFilesystemState = [p \in LocalPaths |-> "absent"]
    /\ todo = << >> /\ visited = {} /\ aborted = {} /\ created = {}
    /\ calls = {} /\ recvs = {}
    /\ pullLast = NoVisit /\ pullPhase = "start" /\ pullErr = "nil"
    /\ ch = NewChannel
    /\ StreamIdle /\ OpIdle /\ ServerIdle /\ HandlerIdle
    /\ cancelled = FALSE /\ unread = FALSE /\ CloseIdle /\ DaemonIdle

\* What a call leaves in the history of the cycle
Issued(ops) ==
    { [op |-> ops[i].op, Remote |-> ops[i].Remote, Local |-> ops[i].Local] :
        i \in DOMAIN ops }

NotPull == << ch, streamVars, opVars, serverVars, handlerVars, cancelled,
             closeVars, daemonVars >>

\* remote.Call("FilesystemRequest"): it fails or returns the remote paths
RequestFilesystems(fails, list) ==
    /\ pullPhase = "start"
    /\ calls' = calls \cup
                  Issued(<< Op("FilesystemRequest", 0, << >>, NoVersion,
                               NoVersion, << >>) >>)
    /\ IF fails
       THEN /\ pullPhase' = "error" /\ pullErr' = "FilesystemRequest"
            /\ UNCHANGED << remoteFilesystems, nextFs >>
       ELSE /\ remoteFilesystems' = list /\ nextFs' = 1
            /\ pullPhase' = "mapping" /\ pullErr' = "nil"
    /\ UNCHANGED << pull, replMapping, localTraversal, zfsState,
                    localFilesystemState, todo, visited, aborted, created,
                    recvs, pullLast, unread, NotPull >>

\* A mapping loop that skips a remote path whose mapping fails
MapNextSkipError ==
    /\ pullPhase = "mapping" /\ nextFs <= Len(remoteFilesystems)
    /\ \E res \in { pull.Mapping[remoteFilesystems[nextFs]] } :
          IF res.err \/ res.Local = << >>
          THEN /\ nextFs' = nextFs + 1
               /\ UNCHANGED << pullPhase, pullErr, replMapping,
                               localTraversal >>
          ELSE /\ nextFs' = nextFs + 1
               /\ replMapping' =
                     { m \in replMapping : m.Local # res.Local }
                       \cup { [Remote |-> remoteFilesystems[nextFs],
                               Local |-> res.Local] }
               /\ localTraversal' = ForestAdd(localTraversal, res.Local)
               /\ UNCHANGED << pullPhase, pullErr >>
    /\ UNCHANGED << pull, remoteFilesystems, zfsState, localFilesystemState,
                    todo, visited, aborted, created, calls, recvs, pullLast,
                    unread, NotPull >>

\* A mapping loop that keys the index by the remote path
MapNextKeyedByRemote ==
    /\ pullPhase = "mapping" /\ nextFs <= Len(remoteFilesystems)
    /\ \E res \in { pull.Mapping[remoteFilesystems[nextFs]] } :
          IF res.err
          THEN /\ pullPhase' = "error" /\ pullErr' = "Map"
               /\ UNCHANGED << nextFs, replMapping, localTraversal >>
          ELSE IF res.Local = << >>
          THEN /\ nextFs' = nextFs + 1
               /\ UNCHANGED << pullPhase, pullErr, replMapping,
                               localTraversal >>
          ELSE /\ nextFs' = nextFs + 1
               /\ replMapping' =
                     { m \in replMapping :
                         m.Local # << 0, remoteFilesystems[nextFs] >> }
                       \cup { [Remote |-> remoteFilesystems[nextFs],
                               Local |-> << 0, remoteFilesystems[nextFs] >>] }
               /\ localTraversal' = ForestAdd(localTraversal, res.Local)
               /\ UNCHANGED << pullPhase, pullErr >>
    /\ UNCHANGED << pull, remoteFilesystems, zfsState, localFilesystemState,
                    todo, visited, aborted, created, calls, recvs, pullLast,
                    unread, NotPull >>

\* One iteration of the mapping loop
MapNext ==
    /\ pullPhase = "mapping" /\ nextFs <= Len(remoteFilesystems)
    /\ \E res \in { pull.Mapping[remoteFilesystems[nextFs]] } :
          IF res.err
          THEN /\ pullPhase' = "error" /\ pullErr' = "Map"
               /\ UNCHANGED << nextFs, replMapping, localTraversal >>
          ELSE IF res.Local = << >>
          THEN /\ nextFs' = nextFs + 1
               /\ UNCHANGED << pullPhase, pullErr, replMapping,
                               localTraversal >>
          ELSE /\ nextFs' = nextFs + 1
               /\ replMapping' =
                     { m \in replMapping : m.Local # res.Local }
                       \cup { [Remote |-> remoteFilesystems[nextFs],
                               Local |-> res.Local] }
               /\ localTraversal' = ForestAdd(localTraversal, res.Local)
               /\ UNCHANGED << pullPhase, pullErr >>
    /\ UNCHANGED << pull, remoteFilesystems, zfsState, localFilesystemState,
                    todo, visited, aborted, created, calls, recvs, pullLast,
                    unread, NotPull >>

PhaseAfter(td) == IF td = << >> THEN "done" ELSE "walk"

\* zfs.ZFSListFilesystemState after the mapping loop, and the start of the walk
ListFilesystemState(fails) ==
    /\ pullPhase = "mapping" /\ nextFs > Len(remoteFilesystems)
    /\ calls' = calls \cup
                  Issued(<< Op("ZFSListFilesystemState", 0, << >>, NoVersion,
                               NoVersion, << >>) >>)
    /\ IF fails
       THEN /\ pullPhase' = "error" /\ pullErr' = "ZFSListFilesystemState"
            /\ UNCHANGED << localFilesystemState, todo >>
       ELSE /\ localFilesystemState' = zfsState
            /\ todo' = WalkOrder(localTraversal)
            /\ pullPhase' = PhaseAfter(WalkOrder(localTraversal))
            /\ pullErr' = "nil"
    /\ UNCHANGED << pull, remoteFilesystems, nextFs, replMapping,
                    localTraversal, zfsState, visited, aborted, created,
                    recvs, pullLast, unread, NotPull >>

\* The local filesystems after the operations ops
ZfsAfter(st, ops) ==
    [p \in LocalPaths |->
        IF \E i \in DOMAIN ops :
              ops[i].op = "ZFSRecv" /\ ops[i].ok /\ ops[i].Local = p
        THEN "present"
        ELSE IF \E i \in DOMAIN ops :
                   /\ ops[i].op = "ZFSCreatePlaceholderFilesystem"
                   /\ ops[i].ok /\ ops[i].Local = p
        THEN "placeholder"
        ELSE st[p]]

\* WalkTopDown calls the visitor for the next node, with result v
\* The ZFSRecv of ops failed: zfs receive stopped and ZFSRecv returned its
\* error before the stream was read to its end; the visitor returns false
\* and leaves the stream as it is
RecvFailed(ops) ==
    \E i \in DOMAIN ops : ops[i].op = "ZFSRecv" /\ ~ops[i].ok

VisitDone(node, v, ls, lst, rem, conflict) ==
    /\ pullLast' = [Path |-> node, FilledIn |-> FilledIn(localTraversal, node),
                    ret |-> v.ret, ops |-> v.ops, localState |-> ls,
                    left |-> lst, right |-> rem, Conflict |-> conflict,
                    diff |-> IF conflict = "none" THEN NoDiff ELSE v.diff]
    /\ visited' = visited \cup { node }
    /\ aborted' = IF v.ret \/ v.panic THEN aborted ELSE aborted \cup { node }
    /\ created' = created \cup
                    { v.ops[i].Local : i \in
                        { j \in DOMAIN v.ops :
                            /\ v.ops[j].op = "ZFSCreatePlaceholderFilesystem"
                            /\ v.ops[j].ok } }
    /\ calls' = calls \cup Issued(v.ops)
    /\ recvs' = recvs \cup
                  { v.ops[i].Local : i \in
                      { j \in DOMAIN v.ops : v.ops[j].op = "ZFSRecv" } }
    /\ zfsState' = ZfsAfter(zfsState, v.ops)
    /\ pullErr' = IF v.err = "keep" THEN pullErr ELSE v.err
    /\ unread' = (unread \/ RecvFailed(v.ops))
    /\ IF v.panic
       THEN pullPhase' = "panic" /\ todo' = todo
       ELSE /\ todo' = WalkRest(todo, v.ret)
            /\ pullPhase' = PhaseAfter(WalkRest(todo, v.ret))
    /\ UNCHANGED << pull, remoteFilesystems, nextFs, replMapping,
                    localTraversal, localFilesystemState, NotPull >>

\* WalkTopDown calls the visitor for the next node of the walk
WalkNext ==
    /\ pullPhase = "walk"
    /\ pullPhase' = "visit"
    /\ pullLast' = [NoVisit EXCEPT
                       !.Path = Head(todo),
                       !.FilledIn = FilledIn(localTraversal, Head(todo)),
                       !.localState = localFilesystemState[Head(todo)]]
    /\ UNCHANGED << pull, remoteFilesystems, nextFs, replMapping,
                    localTraversal, zfsState, localFilesystemState, todo,
                    visited, aborted, created, calls, recvs, pullErr,
                    unread, NotPull >>

\* The visit of a filled-in node
VisitFilledIn(createFails) ==
    /\ pullPhase = "visit" /\ FilledIn(localTraversal, Head(todo))
    /\ \E v \in { visitFilledIn(Head(todo), localFilesystemState,
                                createFails) } :
          VisitDone(Head(todo), v, localFilesystemState[Head(todo)],
                    << >>, << >>, "none")

\* The visit of a node that was added explicitly: the visitor panics when
\* replMapping has no mapping for it
\* (locals, remotes: the version lists the two listings may return)
VisitMappedOver(locals, remotes) ==
    /\ pullPhase = "visit" /\ ~FilledIn(localTraversal, Head(todo))
    /\ \E found \in { { x \in replMapping : x.Local = Head(todo) } } :
          IF found = {}
          THEN VisitDone(Head(todo), Panicked,
                         localFilesystemState[Head(todo)], << >>, << >>,
                         "none")
          ELSE \E m \in found :
               \E ls \in { localFilesystemState[m.Local] } :
               \E o \in VisitOutcomesOver(ls, locals, remotes) :
               \E k \in 0..Len(TransferOps(m, ls, pull.InitialReplPolicy,
                                  MakeFilesystemDiff(o.lst.versions,
                                                     o.rem.versions))) :
               \E v \in { visitMapped(m, ls, pull.InitialReplPolicy, o.lst,
                                      o.rem, k) } :
                  VisitDone(m.Local, v, ls, o.lst.versions, o.rem.versions,
                            v.Conflict)

VisitMapped == VisitMappedOver(LocalVersionLists, VersionLists)

NextPull ==
    \/ \E fails \in BOOLEAN : \E list \in RemoteLists :
          RequestFilesystems(fails, list)
    \/ MapNext
    \/ \E fails \in BOOLEAN : ListFilesystemState(fails)
    \/ WalkNext
    \/ \E createFails \in BOOLEAN : VisitFilledIn(createFails)
    \/ VisitMapped

SpecPull == InitPull /\ [][NextPull]_vars

\* The nodes of the forest of this cycle
ForestNodes == Elems(localTraversal.order)

\* The operations that request or receive a stream
TransferKinds ==
    {"InitialTransferRequest", "IncrementalTransferRequest", "ZFSRecv"}

\* The filled-in nodes that did not exist when the cycle began
MissingParents ==
    { a \in ForestNodes :
        FilledIn(localTraversal, a) /\ localFilesystemState[a] = "absent" }

\* C15: in one doPull cycle every forest node is visited after its parent,
\* and for every filled-in ancestor that does not exist locally the
\* placeholder filesystem has been created before any transfer request or
\* Recv is issued for a filesystem below it.
C15_ParentFirst ==
    /\ \A n \in visited : Len(n) > 1 => Parent(n) \in visited
    /\ \A c \in calls :
          c.op \in TransferKinds
            => \A a \in MissingParents :
                  IsBelow(c.Local, a)
                    => (a \in created /\ zfsState[a] = "placeholder")

\* A stream was requested below a placeholder created in this cycle
C15_Witness ==
    \E c \in calls : \E a \in created :
        c.op = "InitialTransferRequest" /\ IsBelow(c.Local, a)

\* The filled-in nodes whose placeholder could not be created
FailedPlaceholders == { x \in MissingParents \cap visited : x \notin created }

\* C16: if creating the placeholder for a filled-in node fails, no node below
\* it is visited in this cycle and no operation is invoked for a node below
\* it, while the walk goes on with the nodes outside that subtree: every
\* node that is not below a node whose visit returned false has been visited
\* or is still to be visited, and has been visited when the walk is over
\* (a walk that a panic of the visitor ends is not over).
C16_AbortedSubtree ==
    /\ \A x \in FailedPlaceholders : \A n \in ForestNodes :
          IsBelow(n, x)
            => /\ n \notin visited /\ n \notin Elems(todo)
               /\ \A c \in calls : c.Local # n
    /\ pullPhase \in {"walk", "visit", "done"}
          => \A n \in ForestNodes :
                (\A x \in aborted : ~IsBelow(n, x))
                   => (n \in visited \/ n \in Elems(todo))
    /\ pullPhase = "done" => todo = << >>

\* A placeholder could not be created, and a mapped node outside its subtree
\* was visited after it until the end of the walk
C16_Witness ==
    /\ pullPhase = "done"
    /\ \E x \in FailedPlaceholders :
          /\ ~pullLast.FilledIn /\ pullLast.Path \in visited
          /\ ~IsBelow(pullLast.Path, x)
          /\ \E n \in ForestNodes : IsBelow(n, x)

\* The mapping fails for a remote path of the reply to FilesystemRequest
MapFails ==
    \E i \in DOMAIN remoteFilesystems : pull.Mapping[remoteFilesystems[i]].err

\* The remote paths for which the mapping reports no match
Unmatched ==
    { rp \in RemotePaths :
        ~pull.Mapping[rp].err /\ pull.Mapping[rp].Local = << >> }

\* C17: if the mapping returns an error for a remote path, doPull returns
\* that error before it lists the local filesystem state, creates a
\* placeholder or issues a versions or transfer request; a remote path for
\* which the mapping reports no match is skipped without error, and nothing
\* is requested or received for it in the cycle.
C17_MappingErrors ==
    /\ MapFails
          => /\ pullPhase \in {"mapping", "error"}
             /\ pullPhase = "mapping" => nextFs <= Len(remoteFilesystems)
             /\ pullPhase = "error" => pullErr = "Map"
             /\ \A c \in calls : c.op = "FilesystemRequest"
             /\ visited = {} /\ created = {} /\ recvs = {}
    /\ pullPhase = "mapping" => pullErr = "nil"
    /\ \A rp \in Unmatched :
          /\ \A c \in calls : c.Remote # rp
          /\ \A m \in replMapping : m.Remote # rp

\* The mapping reported no match for the first remote path, which was
\* skipped, and failed for the second
C17_Witness ==
    /\ pullPhase = "error" /\ pullErr = "Map" /\ nextFs = 2
    /\ remoteFilesystems[1] \in Unmatched

\* The operations of the given kind in the last visit
OpsOf(kind) == { i \in DOMAIN pullLast.ops : pullLast.ops[i].op = kind }

\* The snapshots of a version list, and the latest of them
Snapshots(vs) == { i \in DOMAIN vs : vs[i].Type = "Snapshot" }

LatestSnapshot(vs) ==
    vs[CHOOSE i \in Snapshots(vs) : \A j \in Snapshots(vs) : j <= i]

\* C18: when the diff is AllRight under the MostRecent policy, doPull issues
\* exactly one InitialTransferRequest, for the latest remote version whose
\* Type is Snapshot, also when a bookmark is the newest version; when the
\* remote has no snapshot it issues no transfer request and no Recv for that
\* filesystem.
C18_MostRecentSnapshot ==
    (/\ pullLast.Conflict = "AllRight"
     /\ pull.InitialReplPolicy = InitialReplPolicyMostRecent)
      => IF Snapshots(pullLast.right) # {}
         THEN /\ Cardinality(OpsOf("InitialTransferRequest")) = 1
              /\ OpsOf("IncrementalTransferRequest") = {}
              /\ \A i \in OpsOf("InitialTransferRequest") :
                    /\ pullLast.ops[i].From = LatestSnapshot(pullLast.right)
                    /\ pullLast.ops[i].From.Type = "Snapshot"
                    /\ [Remote |-> pullLast.ops[i].Remote,
                        Local |-> pullLast.Path] \in replMapping
         ELSE /\ OpsOf("InitialTransferRequest") = {}
              /\ OpsOf("IncrementalTransferRequest") = {}
              /\ OpsOf("ZFSRecv") = {}

\* The newest remote version is a bookmark and a stream was requested
C18_Witness ==
    /\ pullLast.Conflict = "AllRight"
    /\ pullLast.right # << >>
    /\ pullLast.right[Len(pullLast.right)].Type = "Bookmark"
    /\ OpsOf("InitialTransferRequest") # {}

\* C19: the Recv of an initial transfer is invoked with the flag -u, and
\* with the flag -F if and only if the local target of the transfer is a
\* placeholder.
C19_RecvFlags ==
    OpsOf("InitialTransferRequest") # {}
      => \A i \in OpsOf("ZFSRecv") :
            /\ pullLast.ops[i].Local = pullLast.Path
            /\ "-u" \in Elems(pullLast.ops[i].flags)
            /\ "-F" \in Elems(pullLast.ops[i].flags)
                 <=> localFilesystemState[pullLast.Path] = "placeholder"

\* An initial transfer was received into a placeholder
C19_Witness ==
    /\ OpsOf("InitialTransferRequest") # {}
    /\ localFilesystemState[pullLast.Path] = "placeholder"
    /\ \E i \in OpsOf("ZFSRecv") : pullLast.ops[i].ok

\* backup/a and backup/a/b
BackupA == << 1, 1 >>

BackupAB == << 1, 1, 1 >>

\* The mapping yields backup/a/b only, backup/a does not exist locally, and
\* the initial transfer of backup/a/b has been received
Promotion ==
    /\ BackupA \in MissingParents
    /\ pullLast.Path = BackupAB
    /\ OpsOf("InitialTransferRequest") # {} /\ OpsOf("ZFSRecv") # {}

\* C20 as stated: when the mapping yields backup/a/b and backup/a does not
\* exist locally, the cycle first creates the placeholder backup/a and then
\* performs the initial transfer of backup/a/b with the Recv flag -F.
C20_PlaceholderPromotion ==
    Promotion
      => /\ BackupA \in created
         /\ \A i \in OpsOf("ZFSRecv") :
               "-F" \in Elems(pullLast.ops[i].flags)

\* C20, amended: when the mapping yields backup/a/b and backup/a does not
\* exist locally, the cycle first creates the placeholder backup/a and then
\* performs the initial transfer of backup/a/b with the Recv flag -u and
\* without -F, for backup/a/b itself is not a placeholder.
C20_PromotionNoForce ==
    Promotion
      => /\ BackupA \in created
         /\ \A i \in OpsOf("ZFSRecv") : pullLast.ops[i].flags = << "-u" >>

\* The placeholder backup/a was created and backup/a/b was received
C20_Witness ==
    /\ Promotion /\ BackupA \in created
    /\ \E i \in OpsOf("ZFSRecv") : pullLast.ops[i].ok
    /\ zfsState[BackupA] = "placeholder" /\ zfsState[BackupAB] = "present"

\* C21: after the Recv of an initial transfer succeeds, readonly=on is set
\* on the local filesystem before the visitor reports the initial transfer
\* finished (returns true); readonly is set in no other case.
C21_ReadonlyAfterInitial ==
    /\ (/\ OpsOf("InitialTransferRequest") # {}
        /\ \E i \in OpsOf("ZFSRecv") : pullLast.ops[i].ok
        /\ pullLast.ret)
          => \E j \in OpsOf("ZFSSet") :
                /\ pullLast.ops[j].ok /\ pullLast.ops[j].Local = pullLast.Path
                /\ \A i \in OpsOf("ZFSRecv") : i < j
    /\ \A j \in OpsOf("ZFSSet") :
          /\ OpsOf("InitialTransferRequest") # {}
          /\ OpsOf("IncrementalTransferRequest") = {}
          /\ \E i \in OpsOf("ZFSRecv") : i < j /\ pullLast.ops[i].ok

\* ------------------------------------------------------------------------
\* SpecSync: the visit of one mapped filesystem, remote 1 mapped to local
\* <<2>>, with version lists over MaxSyncVersions GUIDs on both sides, so
\* that incremental paths of several steps occur. Init is the cycle at the
\* call of the visitor for that filesystem.
\* ------------------------------------------------------------------------
MaxSyncVersions == 3

SyncGuids == 1..MaxSyncVersions

SyncMapping == [Remote |-> 1, Local |-> << 2 >>]

InitSync ==
    /\ pull \in [Mapping : { [rp \in RemotePaths |->
                                 IF rp = SyncMapping.Remote
                                 THEN [Local |-> SyncMapping.Local,
                                       err |-> FALSE]
                                 ELSE [Local |-> << >>, err |-> FALSE]] },
                 InitialReplPolicy :
                     {InitialReplPolicyMostRecent, InitialReplPolicyAll}]
    /\ zfsState \in LocalStates({ SyncMapping.Local })
    /\ remoteFilesystems = << SyncMapping.Remote >> /\ nextFs = 2
    /\ replMapping = { SyncMapping }
    /\ localTraversal = ForestAdd(NewDatasetPathForest, SyncMapping.Local)
    /\ localFilesystemState = zfsState
    /\ todo = WalkOrder(localTraversal)
    /\ visited = {} /\ aborted = {} /\ created = {}
    /\ calls = Issued(<< Op("FilesystemRequest", 0, << >>, NoVersion,
                            NoVersion, << >>),
                         Op("ZFSListFilesystemState", 0, << >>, NoVersion,
                            NoVersion, << >>) >>)
    /\ recvs = {}
    /\ pullLast = [NoVisit EXCEPT
                      !.Path = SyncMapping.Local,
                      !.localState = zfsState[SyncMapping.Local]]
    /\ pullPhase = "visit" /\ pullErr = "nil"
    /\ ch = NewChannel
    /\ StreamIdle /\ OpIdle /\ ServerIdle /\ HandlerIdle
    /\ cancelled = FALSE /\ unread = FALSE /\ CloseIdle /\ DaemonIdle

SyncVersionLists == VersionListsOver(SyncGuids)

SyncFilesystem == VisitMappedOver(SyncVersionLists, SyncVersionLists)

\* The context of the job that runs doPull is cancelled (cancel() of
\* Daemon.Loop); PullContext holds no context and doPull reads none
Cancel ==
    /\ ~cancelled
    /\ cancelled' = TRUE
    /\ UNCHANGED << pull, remoteFilesystems, nextFs, replMapping,
                    localTraversal, zfsState, localFilesystemState, todo,
                    visited, aborted, created, calls, recvs, pullLast,
                    pullPhase, pullErr, unread, ch, streamVars, opVars,
                    serverVars, handlerVars, closeVars, daemonVars >>

NextSync ==
    \/ SyncFilesystem
    \/ Cancel

SpecSync == InitSync /\ [][NextSync]_vars


\* The transfer-phase operations of the last visit: those after the
\* FilesystemVersionsRequest
TransferPhase ==
    SubSeq(pullLast.ops,
           1 + Cardinality({ i \in DOMAIN pullLast.ops :
                               pullLast.ops[i].op \in
                                 {"ZFSListFilesystemVersions",
                                  "FilesystemVersionsRequest"} }),
           Len(pullLast.ops))

IncrementalPathOfVisit ==
    MakeFilesystemDiff(pullLast.left, pullLast.right).IncrementalPath

\* C22: for an Incremental diff with IncrementalPath of length n >= 2 the
\* visitor issues IncrementalTransferRequest(path[i], path[i+1]) for adjacent
\* pairs in increasing i, each followed by its Recv before the next request,
\* at most n-1 requests, and nothing after a failed request or Recv.
C22_IncrementalSteps ==
    (/\ pullPhase \in {"walk", "done"}
     /\ pullLast.Conflict = "Incremental"
     /\ Len(IncrementalPathOfVisit) >= 2)
      => /\ Len(TransferPhase) <= 2 * (Len(IncrementalPathOfVisit) - 1)
         /\ \A i \in DOMAIN TransferPhase :
               /\ i % 2 = 1 =>
                     /\ TransferPhase[i].op = "IncrementalTransferRequest"
                     /\ TransferPhase[i].Remote = SyncMapping.Remote
                     /\ TransferPhase[i].From =
                           IncrementalPathOfVisit[(i + 1) \div 2]
                     /\ TransferPhase[i].To =
                           IncrementalPathOfVisit[(i + 1) \div 2 + 1]
               /\ i % 2 = 0 =>
                     /\ TransferPhase[i].op = "ZFSRecv"
                     /\ TransferPhase[i].Local = pullLast.Path
               /\ i < Len(TransferPhase) => TransferPhase[i].ok
         /\ (\A i \in DOMAIN TransferPhase : TransferPhase[i].ok)
               => Len(TransferPhase) = 2 * (Len(IncrementalPathOfVisit) - 1)

\* Two steps were requested and the second one failed
C22_Witness ==
    /\ pullPhase \in {"walk", "done"}
    /\ pullLast.Conflict = "Incremental"
    /\ Len(IncrementalPathOfVisit) = 3
    /\ Len(TransferPhase) = 3
    /\ ~TransferPhase[3].ok

\* The filesystem of the last visit needs no transfer or is in conflict
NoTransferCase ==
    /\ pullPhase \in {"walk", "done"}
    /\ ~pullLast.FilledIn
    /\ \/ pullLast.Conflict \in {"NoCommonAncestor", "Diverged"}
       \/ /\ pullLast.Conflict = "Incremental"
          /\ Len(IncrementalPathOfVisit) < 2

\* C23: for a filesystem whose diff is Incremental with IncrementalPath
\* shorter than 2 (in sync), NoCommonAncestor or Diverged, the visitor issues
\* no transfer request and no Recv, and the local filesystem is left as it
\* was.
C23_NoTransfer ==
    NoTransferCase
      => /\ TransferPhase = << >>
         /\ \A i \in DOMAIN pullLast.ops :
               pullLast.ops[i].op \in {"ZFSListFilesystemVersions",
                                       "FilesystemVersionsRequest"}
         /\ pullLast.Path \notin recvs
         /\ zfsState = localFilesystemState
         /\ pullLast.ret = (pullLast.Conflict = "Incremental")

\* Local and remote have diverged after a common version
C23_Witness ==
    /\ NoTransferCase
    /\ pullLast.Conflict = "Diverged"
    /\ MakeFilesystemDiff(pullLast.left, pullLast.right).MRCAPathRight # << >>
    /\ MakeFilesystemDiff(pullLast.left, pullLast.right).MRCAPathLeft # << >>

\* Local and remote are in sync
C23_WitnessInSync ==
    /\ NoTransferCase
    /\ pullLast.Conflict = "Incremental"
    /\ Len(IncrementalPathOfVisit) = 1

\* The remote calls of the cycle so far
RemoteCalls ==
    { c \in calls : c.op \in {"FilesystemRequest", "FilesystemVersionsRequest",
                               "InitialTransferRequest",
                               "IncrementalTransferRequest"} }

\* C24: once the cancellation token is cancelled, doPull issues no further
\* remote call and no further incremental step (no request, no Recv).
C24_NoCallAfterCancel ==
    [][cancelled => /\ RemoteCalls' = RemoteCalls
                    /\ recvs' = recvs]_vars

\* ------------------------------------------------------------------------
\* SpecClose: closeRPCWithTimeout. The caller waits in the select for the
\* timer or for the goroutine that runs the graceful close; time is counted
\* in ticks, and the timer fires when closeTimeout ticks have passed.
\* closeEscalates tells the two versions of the function apart: the one for
\* rpc.RPCClient only logs the error, the later one for rpc.RPCRequester
\* calls ForceClose when err is not nil.
\* ------------------------------------------------------------------------
MaxTimeout == 3

CloseResults == {"nil", "closeFailed"}

InitClose ==
    /\ closeTimeout \in 1..MaxTimeout
    /\ closeEscalates \in BOOLEAN
    /\ closeNow = 0
    /\ closePc = "select" /\ closerPc = "closing"
    /\ closeErr = "nil" /\ closeSent = "nil"
    /\ forceClosed = FALSE /\ returnedAt = 0
    /\ ch = NewChannel
    /\ StreamIdle /\ OpIdle /\ ServerIdle /\ HandlerIdle /\ PullIdle
    /\ DaemonIdle

NotClose == << ch, streamVars, opVars, serverVars, handlerVars, pullVars,
               daemonVars >>

\* A unit of time passes; the timer of the select does not let its time pass
Tick ==
    /\ closeNow <= closeTimeout
    /\ ~(closePc = "select" /\ closeNow = closeTimeout)
    /\ closeNow' = closeNow + 1
    /\ UNCHANGED << closeTimeout, closeEscalates, closePc, closerPc, closeErr,
                    closeSent, forceClosed, returnedAt, NotClose >>

\* The goroutine: remote.Close() returns res, the goroutine goes on to send
\* it on the unbuffered channel
RemoteCloseReturns(res) ==
    /\ closerPc = "closing"
    /\ closerPc' = "sending" /\ closeSent' = res
    /\ UNCHANGED << closeTimeout, closeEscalates, closeNow, closePc, closeErr,
                    forceClosed, returnedAt, NotClose >>

\* What follows the select: the error is logged, and the later version calls
\* remote.ForceClose(); TRUE iff ForceClose is called
afterSelect(err) == closeEscalates /\ err # "nil"

Returned(err) ==
    /\ closeErr' = err
    /\ forceClosed' = afterSelect(err)
    /\ closePc' = "returned" /\ returnedAt' = closeNow
    /\ UNCHANGED << closeTimeout, closeEscalates, closeNow, closeSent,
                    NotClose >>

\* case <-time.After(timeout)
SelectTimeout ==
    /\ closePc = "select" /\ closeNow = closeTimeout
    /\ Returned("timeout")
    /\ UNCHANGED closerPc

\* case closeRequestErr := <-ch: the send of the goroutine and the receive
\* of the select meet; the goroutine closes the channel and ends
SelectReceive ==
    /\ closePc = "select" /\ closerPc = "sending"
    /\ Returned(closeSent)
    /\ closerPc' = "done"

NextClose ==
    \/ Tick
    \/ \E res \in CloseResults : RemoteCloseReturns(res)
    \/ SelectTimeout
    \/ SelectReceive

SpecClose == InitClose /\ [][NextClose]_vars

\* C25: closeRPCWithTimeout returns no later than the timeout, and when the
\* graceful close has not completed by the timeout the channel is
\* force-closed before closeRPCWithTimeout returns.
C25_TimeoutEscalates ==
    closePc = "returned"
      => /\ returnedAt <= closeTimeout
         /\ closeErr = "timeout" => forceClosed

\* ------------------------------------------------------------------------
\* SpecDaemon: Daemon.Loop, the goroutines of the jobs and the signals of
\* the process. A goroutine runs JobStart and then sends its job on the
\* unbuffered channel finishs, which only the select of Loop receives.
\* ------------------------------------------------------------------------
MaxJobs == 3

MaxSignals == 2

SigChanCap == 1

JobIds == 1..nJobs

InitDaemon ==
    /\ nJobs \in 0..MaxJobs
    /\ started = 0
    /\ jobPc = [j \in 1..nJobs |-> "idle"]
    /\ ctxDone = FALSE /\ sigChan = 0 /\ nSignals = 0 /\ finishCount = 0
    /\ loopPc = IF nJobs = 0 THEN "select" ELSE "starting"
    /\ ch = NewChannel
    /\ StreamIdle /\ OpIdle /\ ServerIdle /\ HandlerIdle /\ PullIdle
    /\ CloseIdle /\ SourceIdle

NotDaemon == << ch, streamVars, opVars, serverVars, handlerVars, pullVars,
                closeVars, sourceVars >>

\* One iteration of the loop over d.conf.Jobs: the goroutine of the next
\* job is started and calls JobStart
StartJob ==
    /\ loopPc = "starting"
    /\ started' = started + 1
    /\ jobPc' = [jobPc EXCEPT ![started + 1] = "running"]
    /\ loopPc' = IF started + 1 = nJobs THEN "select" ELSE "starting"
    /\ UNCHANGED << nJobs, ctxDone, sigChan, nSignals, finishCount,
                    NotDaemon >>

\* JobStart of job j returns; its goroutine goes on to send on finishs
JobReturns(j) ==
    /\ jobPc[j] = "running"
    /\ jobPc' = [jobPc EXCEPT ![j] = "returned"]
    /\ UNCHANGED << nJobs, started, ctxDone, sigChan, nSignals, finishCount,
                    loopPc, NotDaemon >>

\* A SIGINT or SIGTERM is delivered to the process: signal.Notify puts it
\* into sigChan unless the buffer is full
Signal ==
    /\ nSignals < MaxSignals /\ loopPc # "exited"
    /\ nSignals' = nSignals + 1
    /\ sigChan' = IF sigChan < SigChanCap THEN sigChan + 1 ELSE sigChan
    /\ UNCHANGED << nJobs, started, jobPc, ctxDone, finishCount, loopPc,
                    NotDaemon >>

\* A Loop that leaves its loop at the first job that reports
afterFinishFirst(count) == "exited"

\* What Loop does after it counted a finished job: it leaves the loop iff
\* all jobs have reported
afterFinish(count) == IF count = nJobs THEN "exited" ELSE "select"

\* case j := <-finishs: the send of the goroutine of job j and the receive
\* of the select meet
ReceiveFinish(j) ==
    /\ loopPc = "select" /\ jobPc[j] = "returned"
    /\ jobPc' = [jobPc EXCEPT ![j] = "reported"]
    /\ finishCount' = finishCount + 1
    /\ loopPc' = afterFinish(finishCount + 1)
    /\ UNCHANGED << nJobs, started, ctxDone, sigChan, nSignals, NotDaemon >>

\* case sig := <-sigChan: cancel() cancels ctx and with it every jobCtx
ReceiveSignal ==
    /\ loopPc = "select" /\ sigChan > 0
    /\ sigChan' = sigChan - 1
    /\ ctxDone' = TRUE
    /\ UNCHANGED << nJobs, started, jobPc, nSignals, finishCount, loopPc,
                    NotDaemon >>

NextDaemon ==
    \/ StartJob
    \/ \E j \in JobIds : JobReturns(j)
    \/ Signal
    \/ \E j \in JobIds : ReceiveFinish(j)
    \/ ReceiveSignal

SpecDaemon == InitDaemon /\ [][NextDaemon]_vars

\* The jobs that have reported on finishs
Reported == { j \in JobIds : jobPc[j] = "reported" }

\* C26: Daemon.Loop does not exit before every started job has reported
\* that it finished, also not after a signal was received while jobs are
\* still running; it exits as soon as the last job has reported.
C26_ExitAfterAllReported ==
    /\ loopPc = "exited" => started = nJobs /\ Reported = JobIds
    /\ (nJobs > 0 /\ Reported = JobIds) => loopPc = "exited"
    /\ finishCount = Cardinality(Reported)

\* The signal was received and the jobs were cancelled, one job has
\* reported and the other is still running: Loop has not exited
C26_Witness ==
    /\ ctxDone /\ nJobs = 2 /\ Cardinality(Reported) = 1
    /\ \E j \in JobIds : jobPc[j] = "running"
    /\ loopPc = "select"

\* Loop has exited after a signal, all jobs have reported
C26_WitnessExited == ctxDone /\ nJobs = 2 /\ loopPc = "exited"

\* SpecDaemonFair: Loop and the goroutines keep running while they can take
\* a step (the Go scheduler runs every runnable goroutine, and a select
\* with a ready case takes one), and every job returns from JobStart once
\* its context is cancelled
SpecDaemonFair ==
    /\ SpecDaemon
    /\ WF_vars(StartJob)
    /\ WF_vars(ReceiveSignal)
    /\ \A j \in 1..MaxJobs : WF_vars(j \in JobIds /\ ReceiveFinish(j))
    /\ \A j \in 1..MaxJobs :
           WF_vars(j \in JobIds /\ ctxDone /\ JobReturns(j))

\* C27: after a SIGINT or SIGTERM is delivered the context of the jobs is
\* cancelled (unless Loop has exited before it received the signal), and,
\* the jobs returning from JobStart after the cancel, Daemon.Loop
\* eventually exits; further signals do not break this.
C27_SignalShutsDown ==
    /\ (nSignals > 0) ~> (ctxDone \/ loopPc = "exited")
    /\ (nSignals > 0) ~> (loopPc = "exited")

\* C28: every FilesystemDiff of the diff algorithm has a non-empty
\* IncrementalPath iff Conflict = Incremental, a non-empty MRCAPathLeft only
\* for Diverged or NoCommonAncestor, and a non-empty MRCAPathRight only for
\* these and AllRight, for all creation-ordered inputs, two empty lists
\* included.
C28_DiffShape ==
    pullLast.diff # NoDiff
      => /\ pullLast.diff.IncrementalPath # << >>
               <=> pullLast.diff.Conflict = "Incremental"
         /\ pullLast.diff.MRCAPathLeft # << >>
               => pullLast.diff.Conflict \in {"Diverged", "NoCommonAncestor"}
         /\ pullLast.diff.MRCAPathRight # << >>
               => pullLast.diff.Conflict \in
                     {"Diverged", "NoCommonAncestor", "AllRight"}

\* C28, amended: a non-empty IncrementalPath occurs only with Incremental;
\* an Incremental diff has an empty IncrementalPath exactly when both
\* version lists are empty; AllRight is the diff of an empty local list and
\* a non-empty remote list and has MRCAPathRight = the remote list; the
\* MRCA paths are non-empty only as the claim says.
C28_DiffShapeAmended ==
    pullLast.diff # NoDiff
      => /\ pullLast.diff.IncrementalPath # << >>
               => pullLast.diff.Conflict = "Incremental"
         /\ (/\ pullLast.diff.Conflict = "Incremental"
             /\ pullLast.diff.IncrementalPath = << >>)
               <=> (pullLast.left = << >> /\ pullLast.right = << >>)
         /\ pullLast.diff.Conflict = "AllRight"
               <=> (pullLast.left = << >> /\ pullLast.right # << >>)
         /\ pullLast.diff.Conflict = "AllRight"
               => pullLast.diff.MRCAPathRight = pullLast.right
         /\ pullLast.diff.MRCAPathLeft # << >>
               => pullLast.diff.Conflict \in {"Diverged", "NoCommonAncestor"}
         /\ pullLast.diff.MRCAPathRight # << >>
               => pullLast.diff.Conflict \in
                     {"Diverged", "NoCommonAncestor", "AllRight"}

\* The diff of two empty version lists
C28_Witness ==
    /\ pullLast.diff # NoDiff
    /\ pullLast.localState = "present"
    /\ pullLast.left = << >> /\ pullLast.right = << >>
    /\ pullLast.diff.Conflict = "Incremental"

\* The local paths that the mapping loop added to the forest
Added ==
    { pull.Mapping[remoteFilesystems[i]].Local :
        i \in 1..(nextFs - 1) } \ { << >> }

\* C29: WalkTopDown visits every ancestor before its descendants and
\* reports FilledIn = true exactly for the nodes that were never added
\* explicitly, and every node visited as not filled in has an entry in
\* replMapping, so the visitor's lookup never fails.
C29_WalkAndIndex ==
    pullPhase \in {"walk", "visit", "done", "panic"}
      => /\ \A n \in visited : Prefixes(n) \subseteq visited
         /\ pullLast.Path # << >>
               => /\ Prefixes(pullLast.Path) \ { pullLast.Path }
                       \subseteq visited
                  /\ pullLast.FilledIn <=> pullLast.Path \notin Added
                  /\ ~pullLast.FilledIn
                       => \E m \in replMapping : m.Local = pullLast.Path

\* backup/a was filled in as the parent of backup/a/b and then added
\* itself; backup was filled in. The walk has visited all three.
C29_Witness ==
    /\ pullPhase \in {"walk", "done"}
    /\ pull.Mapping[1].Local = BackupAB /\ pull.Mapping[2].Local = BackupA
    /\ pullLast.Path = BackupAB /\ ~pullLast.FilledIn
    /\ visited = { << 1 >>, BackupA, BackupAB }
    /\ << 1 >> \notin Added

\* The mapping loop has mapped two different remote paths to one local path
DuplicateLocal ==
    /\ pullPhase # "start" /\ nextFs > Len(remoteFilesystems)
    /\ \E i, j \in DOMAIN remoteFilesystems :
          /\ remoteFilesystems[i] # remoteFilesystems[j]
          /\ pull.Mapping[remoteFilesystems[i]].Local # << >>
          /\ pull.Mapping[remoteFilesystems[i]].Local
                = pull.Mapping[remoteFilesystems[j]].Local

\* C30: when two different remote paths map to the same local path, the
\* cycle reports an error: it does not go on to the walk and replicates
\* neither of the two remotes into that local path.
C30_DuplicateLocalIsError ==
    DuplicateLocal
      => /\ pullPhase \in {"mapping", "error"}
         /\ \A c \in calls : c.op \notin TransferKinds

\* C31: whenever doPull issues a remote call, the stream returned by the
\* previous transfer request has been read to its end or cancelled, also
\* after a Recv that failed before the end of its stream.
C31_StreamConsumedBeforeCall ==
    [][unread => RemoteCalls' = RemoteCalls]_vars

\* ------------------------------------------------------------------------
\* SpecReader: a bridging reader for one frame type reads a channel on which
\* the peer has put up to MaxFrames frames of any type with their payloads
\* and has then closed its end. src holds what the peer has sent.
\* ------------------------------------------------------------------------
PeerFrameTypes == {FrameTypeHeader, FrameTypeData, FrameTypeRST}

\* A frame and its payload
PeerFrames ==
    { [f |-> Frame(t, nm, Len(pl)), payload |-> pl] :
        t \in PeerFrameTypes, nm \in BOOLEAN, pl \in SeqsUpTo(DataBytes, 1) }

\* The bytes of a sequence of frames on the channel
RECURSIVE Wire(_)
Wire(fs) ==
    IF fs = << >> THEN << >>
    ELSE FrameBytes(Head(fs).f) \o Head(fs).payload \o Wire(Tail(fs))

InitReader ==
    /\ src \in SeqsUpTo(PeerFrames, MaxFrames)
    /\ ch = [NewChannel EXCEPT !.rd = Wire(src), !.eof = TRUE]
    /\ r \in { NewFrameBridgingReader(t, NoLimit) :
                  t \in {FrameTypeHeader, FrameTypeData} }
    /\ got = << >> /\ rstate = "reading"
    /\ wpos = 0 /\ wstate = "closed"
    /\ w = NewFrameBridgingWriter(FrameTypeData, NoLimit, FrameCap)
    /\ OpIdle /\ ServerIdle /\ HandlerIdle /\ PullIdle
    /\ CloseIdle /\ DaemonIdle

NextReader == \E lenb \in 1..MaxBuf : \E nb \in 1..MaxBuf : StreamRead(lenb, nb)

SpecReader == InitReader /\ [][NextReader]_vars

\* The payload bytes of the message of type t at the head of fs: those of
\* the frames of type t up to the first frame of another type or the first
\* NoMoreFrames frame
RECURSIVE MessagePayload(_, _)
MessagePayload(fs, t) ==
    IF fs = << >> \/ Head(fs).f.Type # t THEN << >>
    ELSE IF Head(fs).f.NoMoreFrames THEN Head(fs).payload
    ELSE Head(fs).payload \o MessagePayload(Tail(fs), t)

IsPrefix(s, t) == Len(s) <= Len(t) /\ s = SubSeq(t, 1, Len(s))

\* C32: a bridging reader for frame type T delivers only payload bytes of
\* frames of type T: when the next frame has another type, Read returns an
\* error and none of that frame's payload is delivered.
C32_OnlyOwnType ==
    /\ (r.f # ZeroFrame /\ r.f.Type # r.frameType) => rstate = "err"
    /\ IsPrefix(got, MessagePayload(src, r.frameType))

\* ------------------------------------------------------------------------
\* One message of a bridging writer: Write calls, then Close
\* ------------------------------------------------------------------------
\* The writers of WriteData (no limit) and of WriteHeader (a limit on the
\* total bytes; 1..MaxLen stands in for MAX_HEADER_LENGTH, FrameCap for
\* MAX_PAYLOAD_LENGTH); nobody reads.
InitWriter ==
    /\ ch = NewChannel
    /\ src \in SeqsUpTo(DataBytes, MaxLen)
    /\ wpos = 0
    /\ w \in { NewFrameBridgingWriter(FrameTypeData, NoLimit, FrameCap) }
             \cup { NewFrameBridgingWriter(FrameTypeHeader, lim, FrameCap) :
                      lim \in 1..MaxLen }
    /\ wstate = "open"
    /\ r = ReadData
    /\ got = << >>
    /\ rstate = "eof"
    /\ OpIdle /\ ServerIdle /\ HandlerIdle /\ PullIdle
    /\ CloseIdle /\ DaemonIdle

NextWriter ==
    \/ \E k \in 1..MaxLen : StreamWrite(k)
    \/ StreamClose

SpecWriter == InitWriter /\ [][NextWriter]_vars

\* The frames on the channel, as readFrame and the payload reads take
\* them apart
RECURSIVE FramesOn(_)
FramesOn(bytes) ==
    IF Len(bytes) < 6 THEN << >>
    ELSE LET f == Frame(bytes[1], bytes[2] # 0, Uint32(SubSeq(bytes, 3, 6)))
         IN  << f >> \o FramesOn(Drop(bytes, 6 + Min(f.PayloadLength, Len(bytes) - 6)))

\* C33: the message of a closed writer is a run of frames of the writer's
\* type, each with a payload of at most the frame capacity, in which exactly
\* one frame has NoMoreFrames set and that frame is the last one.
C33_OneLastFrame ==
    wstate = "closed" =>
        /\ Len(FramesOn(ch.rd)) >= 1
        /\ \A i \in 1..Len(FramesOn(ch.rd)) :
              /\ FramesOn(ch.rd)[i].Type = w.frameType
              /\ FramesOn(ch.rd)[i].PayloadLength <= w.payloadLength
              /\ FramesOn(ch.rd)[i].NoMoreFrames <=> (i = Len(FramesOn(ch.rd)))

\* C34: WriteHeader returns an error whenever the header frame was not
\* written completely to the channel, that is, whenever the call put fewer
\* bytes on the channel than the six bytes of a frame header.
C34_WriteHeaderReportsFailure ==
    (lastOp.op = "WriteHeader" /\ Len(lastOp.after) < 6) => lastOp.err = "err"

\* ------------------------------------------------------------------------
\* The server reads one request: header, then a JSON body
\* ------------------------------------------------------------------------
\* json.NewDecoder(r).Decode(&v) where every rwc.Read hands over at most nb
\* bytes: Read until the buffer holds a value, and no further.
RECURSIVE DecodeWith(_, _, _, _)
DecodeWith(rdr, c, buf, nb) ==
    LET Refill(rd) ==
            IF rd.err = "nil" THEN DecodeWith(rd.r, rd.c, buf \o rd.n, nb)
            ELSE IF rd.err = "block"
            THEN [r |-> rdr, c |-> c, obj |-> <<>>, err |-> "block"]
            ELSE [r |-> rd.r, c |-> rd.c, obj |-> <<>>,
                  err |-> IF rd.err # "EOF" THEN "ioerr"
                          ELSE IF OnlySpace(buf) THEN "EOF"
                          ELSE "syntax"]
        Scanned(s) ==
            IF s.state = "ok" THEN [r |-> rdr, c |-> c, obj |-> s.obj, err |-> "nil"]
            ELSE IF s.state = "bad"
            THEN [r |-> rdr, c |-> c, obj |-> <<>>, err |-> "syntax"]
            ELSE Refill(ReadWith(rdr, c, DecoderBuf, nb))
    IN  Scanned(ScanValue(buf, 1))

\* What the client sends for one call with a JSON argument: WriteHeader,
\* then WriteData of the encoded value by a writer of the given capacity
PeerJSONRequest(e, v, payloadLength) ==
    WriteDataCap(WriteHeader(NewChannel,
                             RequestHeader(e, DataTypeMarshaledJSON,
                                           DataTypeMarshaledJSON)).c,
                 EncodeBody(v), payloadLength).c.wr

\* The frame capacities of the client: the real one, and one that the
\* encoded body fills exactly, so that Close emits an empty last frame
PeerCapacities == { MAX_PAYLOAD_LENGTH, Len(EncodeBody(0)) }

PeerJSONRequests ==
    { PeerJSONRequest(e, v, cap) :
        e \in 1..MaxRequests, v \in 0..MaxLen, cap \in PeerCapacities }

\* The channel holds one request, or two in a row
InitRequest ==
    /\ \E first \in PeerJSONRequests :
         \E second \in PeerJSONRequests \cup { << >> } :
            ch = [NewChannel EXCEPT !.rd = first \o second]
    /\ lastOp = NoOp
    /\ nOps = 0
    /\ StreamIdle /\ ServerIdle /\ HandlerIdle /\ PullIdle
    /\ CloseIdle /\ DaemonIdle

\* The sizes of what one rwc.Read hands over
ShortReads == 1..Len(EncodeHeader(ZeroHeader))

\* s.recvRequest(): ml.ReadHeader()
RecvRequest(nb) ==
    /\ lastOp.op = "none"
    /\ \E res \in { DecodeWith(NewFrameBridgingReader(FrameTypeHeader,
                                                     MAX_HEADER_LENGTH),
                               ch, <<>>, nb) } :
          /\ ch' = res.c
          /\ lastOp' = [NoOp EXCEPT !.op = "ReadHeader", !.err = res.err,
                                    !.f = res.r.f, !.before = ch.rd]
    /\ nOps' = nOps + 1
    /\ UNCHANGED << streamVars, serverVars, handlerVars, pullVars,
                    closeVars, daemonVars >>

\* dr := ml.ReadData(); json.NewDecoder(dr).Decode(invalIface)
DecodeRequestBody(nb) ==
    /\ lastOp.op = "ReadHeader" /\ lastOp.err = "nil"
    /\ \E res \in { DecodeWith(ReadData, ch, <<>>, nb) } :
          /\ ch' = res.c
          /\ lastOp' = [NoOp EXCEPT !.op = "DecodeBody", !.err = res.err,
                                    !.f = res.r.f, !.before = lastOp.before]
    /\ nOps' = nOps + 1
    /\ UNCHANGED << streamVars, serverVars, handlerVars, pullVars,
                    closeVars, daemonVars >>

NextRequest ==
    \/ \E nb \in ShortReads : RecvRequest(nb)
    \/ \E nb \in ShortReads : DecodeRequestBody(nb)

SpecRequest == InitRequest /\ [][NextRequest]_vars

\* C35: once the server has read the request header and decoded the JSON
\* body, what is left on the channel is exactly what followed the request:
\* nothing, or the frames of the next request.
C35_FrameBoundary ==
    (lastOp.op = "DecodeBody" /\ lastOp.err = "nil") =>
        /\ ch.rd \in PeerJSONRequests \cup { << >> }
        /\ \E first \in PeerJSONRequests : lastOp.before = first \o ch.rd

\* C36: in doPull a filesystem that is a local placeholder always gets an
\* AllRight diff, for every list of remote versions, so the consistency
\* check before the switch on diff.Conflict never panics.
C36_PlaceholderIsAllRight ==
    (pullLast.localState = "placeholder" /\ pullLast.Conflict # "none")
        => pullLast.Conflict = "AllRight"

\* closeRPCWithTimeout with the scheduling of the Go runtime: time passes,
\* remote.Close() returns, an enabled case of the select is taken, and a
\* send that has a receiver completes.
SpecCloseFair ==
    /\ InitClose /\ [][NextClose]_vars
    /\ WF_vars(Tick)
    /\ WF_vars(\E res \in CloseResults : RemoteCloseReturns(res))
    /\ WF_vars(SelectTimeout)
    /\ WF_vars(SelectReceive)

\* C37: the goroutine that closeRPCWithTimeout starts always terminates:
\* its send of the close result completes in every interleaving of the
\* close completing and the timeout firing.
C37_CloserTerminates == <>(closerPc = "done")

\* ------------------------------------------------------------------------
\* SpecSource: SourceJob.JobDo, its accept goroutines, the peers that
\* connect and the signals of the process. Every iteration of the loop
\* starts a goroutine that calls listener.Accept() and sends the connection
\* on the unbuffered channel rwcChan, which only the select of the loop
\* receives.
\* ------------------------------------------------------------------------
MaxConns == 3

\* Capacity of sigChan in JobDo
SourceSigChanCap == 1

\* After j.Serve.Listen() has returned the listener
InitSource ==
    /\ srcPc = "spawn"
    /\ accs = << >> /\ connState = << >>
    /\ listenerOpen = TRUE /\ rwcChanClosed = FALSE
    /\ srcSigChan = 0 /\ srcSignals = 0
    /\ ch = NewChannel
    /\ StreamIdle /\ OpIdle /\ ServerIdle /\ HandlerIdle /\ PullIdle
    /\ CloseIdle /\ LoopIdle

NotSource == << ch, streamVars, opVars, serverVars, handlerVars, pullVars,
                closeVars, nJobs, started, jobPc, ctxDone, sigChan, nSignals,
                finishCount, loopPc >>

\* The top of the loop: go func() { ... listener.Accept() ... }()
SpawnAccept ==
    /\ srcPc = "spawn"
    /\ accs' = Append(accs, [pc |-> "accepting", conn |-> 0])
    /\ srcPc' = "select"
    /\ UNCHANGED << connState, listenerOpen, rwcChanClosed, srcSigChan,
                    srcSignals, NotSource >>

\* A peer connects and listener.Accept() returns the connection; the
\* goroutine goes on to send it on rwcChan
AcceptReturns(g) ==
    /\ accs[g].pc = "accepting" /\ listenerOpen
    /\ Len(connState) < MaxConns
    /\ connState' = Append(connState, "accepted")
    /\ accs' = [accs EXCEPT ![g] = [pc |-> "sending",
                                    conn |-> Len(connState) + 1]]
    /\ UNCHANGED << srcPc, listenerOpen, rwcChanClosed, srcSigChan,
                    srcSignals, NotSource >>

\* listener.Accept() returns an error (always so once the listener is
\* closed): close(rwcChan), and the goroutine returns
AcceptFails(g) ==
    /\ accs[g].pc = "accepting"
    /\ accs' = [accs EXCEPT ![g].pc = "done"]
    /\ rwcChanClosed' = TRUE
    /\ UNCHANGED << srcPc, connState, listenerOpen, srcSigChan, srcSignals,
                    NotSource >>

\* A SIGINT or SIGTERM is delivered: signal.Notify does not block, a signal
\* that finds sigChan full is dropped; after signal.Stop none is delivered
SourceSignal ==
    /\ srcSignals < MaxSignals
    /\ srcPc \in {"spawn", "select", "serving"}
    /\ srcSignals' = srcSignals + 1
    /\ srcSigChan' = Min(srcSigChan + 1, SourceSigChanCap)
    /\ UNCHANGED << srcPc, accs, connState, listenerOpen, rwcChanClosed,
                    NotSource >>

\* case rwc, notClosed := <-rwcChan with a sender: the goroutine's send
\* completes and it returns; JobDo goes on to serve the connection
ReceiveConn(g) ==
    /\ srcPc = "select" /\ accs[g].pc = "sending"
    /\ accs' = [accs EXCEPT ![g].pc = "done"]
    /\ connState' = [connState EXCEPT ![accs[g].conn] = "serving"]
    /\ srcPc' = "serving"
    /\ UNCHANGED << listenerOpen, rwcChanClosed, srcSigChan, srcSignals,
                    NotSource >>

\* case rwc, notClosed := <-rwcChan on the closed channel: break outer
ReceiveClosed ==
    /\ srcPc = "select" /\ rwcChanClosed
    /\ srcPc' = "ended"
    /\ UNCHANGED << accs, connState, listenerOpen, rwcChanClosed, srcSigChan,
                    srcSignals, NotSource >>

\* rpcServer.Serve() returns, with or without an error; rwc.Close(), and
\* the next iteration of the loop
ServeReturns ==
    /\ srcPc = "serving"
    /\ connState' = [c \in DOMAIN connState |->
                        IF connState[c] = "serving" THEN "closed"
                        ELSE connState[c]]
    /\ srcPc' = "spawn"
    /\ UNCHANGED << accs, listenerOpen, rwcChanClosed, srcSigChan,
                    srcSignals, NotSource >>

\* case sig := <-sigChan: break outer
ReceiveSourceSignal ==
    /\ srcPc = "select" /\ srcSigChan > 0
    /\ srcSigChan' = srcSigChan - 1
    /\ srcPc' = "ended"
    /\ UNCHANGED << accs, connState, listenerOpen, rwcChanClosed, srcSignals,
                    NotSource >>

\* After the loop: signal.Stop, close(sigChan), listener.Close(), return nil
CloseListener ==
    /\ srcPc = "ended"
    /\ listenerOpen' = FALSE
    /\ srcPc' = "returned"
    /\ UNCHANGED << accs, connState, rwcChanClosed, srcSigChan, srcSignals,
                    NotSource >>

NextSource ==
    \/ SpawnAccept
    \/ \E g \in DOMAIN accs : AcceptReturns(g)
    \/ \E g \in DOMAIN accs : AcceptFails(g)
    \/ SourceSignal
    \/ \E g \in DOMAIN accs : ReceiveConn(g)
    \/ ReceiveClosed
    \/ ServeReturns
    \/ ReceiveSourceSignal
    \/ CloseListener

SpecSource == InitSource /\ [][NextSource]_vars

AcceptsIn(pc) == { g \in DOMAIN accs : accs[g].pc = pc }

\* C38: in JobDo at most one Accept is outstanding and at most one
\* connection is served at a time, a connection that Accept returned is
\* never left unserved when the loop has ended, and after the loop has
\* ended no accept goroutine is blocked in its send on rwcChan.
C38_AcceptedIsServed ==
    /\ Cardinality(AcceptsIn("accepting") \cup AcceptsIn("sending")) <= 1
    /\ Cardinality({ c \in DOMAIN connState : connState[c] = "serving" }) <= 1
    /\ srcPc \in {"ended", "returned"} =>
          /\ AcceptsIn("sending") = {}
          /\ \A c \in DOMAIN connState : connState[c] = "closed"

\* SpecDaemonJobsFinish: as SpecDaemonFair, and every started job returns
\* from JobStart, cancelled or not
SpecDaemonJobsFinish ==
    /\ SpecDaemon
    /\ WF_vars(StartJob)
    /\ WF_vars(ReceiveSignal)
    /\ \A j \in 1..MaxJobs : WF_vars(j \in JobIds /\ ReceiveFinish(j))
    /\ \A j \in 1..MaxJobs : WF_vars(j \in JobIds /\ JobReturns(j))

\* C39: Daemon.Loop terminates when all started jobs finish, for every
\* number of configured jobs, zero included.
C39_LoopTerminates == <>(loopPc = "exited")

\* C40: a RegisterEndpoint call that returns an error (the name is taken,
\* or the handler has an unsupported shape) leaves the set of registered
\* names as it was before the call.
C40_FailedRegisterKeepsNames ==
    [][lastReg'.err = "err" => DOMAIN endpoints' = DOMAIN endpoints]_vars

====
